---------------------------- MODULE Spec2Model ----------------------------
(***************************************************************************)
(* A model of the relay transport of reverse_ssh (package internal/nat):   *)
(* the server's session table and receive-loop handlers (service.go), the  *)
(* accept listener (listener.go), the relay pseudo-connection              *)
(* (relay_conn.go) and the client's Dial.                                  *)
(*                                                                         *)
(* Time is counted in seconds.  A relaySessionKey is a pair <<peer, sid>>. *)
(* A *relayConn is the pair <<key, n>> of the key it was created for and   *)
(* its serial number; its fields are kept per field: the set of conns      *)
(* whose close channel is closed, the set of conns with remoteClosed set,  *)
(* the set of conns whose incoming channel is closed, and the queued       *)
(* payloads of each conn.                                                  *)
(***************************************************************************)
EXTENDS Integers, Sequences, FiniteSets, Bags, TLC

\* ------------------------------------------------------------------------
\* Program constants
\* ------------------------------------------------------------------------
maxPendingRelaySessions == 256

pendingRelaySessionTTL == 30

connChCapacity == 128

incomingCapacity == 256

maxChunk == 65000

dialAckTimeout == 5

TokenVersionV1 == 1

\* bytes of a server key, and of a token
keyLen == 32

tokenLen == 35
defaultDERPPort == 443
defaultSTUNPort == 3478
unreachableDERPLatency == 86400
signalDialInit == 1
signalDialAck == 2
signalData == 3
signalClose == 4
boxOverhead == 16
derpFrameServerInfo == 3
derpFrameRecvPacket == 5
derpFrameKeepAlive == 6
derpFramePing == 18
derpFramePong == 19
derpMaxFrameSize == 1048576
derpLatencyProbeConcurrency == 8
derpMaxSendSize == 65536
derpFlushThreshold == 65536
derpFlushNowSize == 16384
derpFrameHeaderLen == 5

\* ------------------------------------------------------------------------
\* Bounds of the model
\* ------------------------------------------------------------------------
\* session ids the hot peer uses
MaxSid == 1

\* never-seen session ids the flooding peer may still use after Init
MaxFresh == 1

\* conns the service may create for the hot peer
MaxHotConns == 2

\* the clock stops advancing here
MaxNow == 60

\* data messages the environment sends
MaxData == 2

\* dialInit messages of the flood of SpecFlood
MaxFlood == 288
MaxBytes == 3
MaxWrite == 2
MaxBuf == 2
MaxEnv == 2
MaxDialNow == 6

\* goroutines that call Service.Close, and the calls they make in all
MaxClosers == 2
MaxCloseCalls == 3

\* session ids and conns next to Service.Close
MaxCloseSid == 2
MaxCloseConns == 2
MaxRegion == 3
MaxStarts == 2
MaxQueueConns == 2
MaxQueueAccepts == 2
MaxRecvs == 3
MaxRecvFails == 2
MaxConnectFails == 2
MaxClients == 3
MaxSends == 2
MaxWriteChunks == 4
MaxEncoders == 2
MaxCounter == 2
MaxBoots == 2
MaxFrames == 3
HeadLen == 40
MaxProbeVaried == 3
MaxEnvelopeLen == 80
MaxLinkSends == 3
MaxCollected == 1
CloseId == MaxLinkSends + 1
LinkPayloadLens == {1, 20000}
ProbeCounts == {1, 2, 3, 9}

HotPeer == "a"

FloodPeer == "f"

HotKeys == {<<HotPeer, i>> : i \in 1..MaxSid}

\* the flood that SpecCap starts from: one short of the cap
FloodBase == maxPendingRelaySessions - 1

Closers == 1..MaxClosers

CloseKeys == {<<HotPeer, i>> : i \in 1..MaxCloseSid}

VARIABLES
    sessions,     \* Service.sessions: a map, its DOMAIN the keys present
    nConns,       \* the serial number of the last relayConn created
    closedConns,  \* relayConn.closed: the conns whose close channel is closed
    remoteClosed, \* relayConn.remoteClosed: the conns with the flag set
    chanClosed,   \* the conns whose incoming channel is closed
    incoming,     \* relayConn.incoming: the queued payloads, by conn
    connCh,       \* connListener.connCh: the queued conns
    lclosed,      \* connListener.closed (closeCh is closed)
    rl,           \* the receive loop's position inside routeRelayData
    acc,          \* the application's position inside Accept
    held,         \* conns Accept has returned to the application
    pushed,       \* conns listener.push has enqueued (history)
    now,          \* the clock
    nextSid,      \* the flooding peer's next session id
    nData,        \* data messages handled so far
    panicked,     \* the process died of a send on a closed channel
    sent,         \* the signals the last operation handed to sendSignal, a bag
    last,         \* the last operation and what it found (history)
    link,         \* the envelopes the peer has sent and the service not yet received
    wrote,        \* the bytes the peer's relayConn has written, in order (history)
    peerClosed,   \* the peer's relayConn is closed
    readBuf,      \* relayConn.readBuf: the residue of a payload, by conn
    rd,           \* the application's position inside Read
    got,          \* the bytes Read has returned, in order, by conn (history)
    dial,         \* Dial on the client: its position, its channels, its outcome
    svc,          \* Service.Close: the closed channel, closeOnce, the rendezvous
                  \* client, the callers of Close and what they shut
    rcClose,      \* relayConn.Close of one conn: closeOnce, the callers of Close,
                  \* and how often the channel was closed, the hook run and
                  \* the signal sent
    call,         \* a call of a function of the package: its arguments, its
                  \* position and what it returned
    derp          \* the receive loop's position, the rendezvous clients created
                  \* and closed, the one in s.derpClient and the one the loop holds

connVars == <<closedConns, remoteClosed, chanClosed, incoming>>

svcVars == <<sessions, nConns, closedConns, remoteClosed, chanClosed, incoming,
             connCh, lclosed, rl, acc, held, pushed, now, nextSid, nData,
             panicked, sent, last>>

streamVars == <<link, wrote, peerClosed, readBuf, rd, got>>

\* the state outside the session table and the stream of one session
restVars == <<svc, rcClose, call, derp>>

clientVars == <<streamVars, dial, restVars>>

\* ------------------------------------------------------------------------
\* Helpers
\* ------------------------------------------------------------------------
Range(s) == {s[i] : i \in DOMAIN s}

\* the map operations
MapPut(m, k, v) == [x \in DOMAIN m \cup {k} |-> IF x = k THEN v ELSE m[x]]

MapDelete(m, K) == IF K \cap DOMAIN m = {} THEN m ELSE [x \in DOMAIN m \ K |-> m[x]]

MapGet(m, k, default) == IF k \in DOMAIN m THEN m[k] ELSE default

\* newRelayConn: the conn of serial number n for key
newRelayConn(key, n) == <<key, n>>

\* the key the on-closed hook of conn c deletes, and sendSignal addresses
KeyOf(c) == c[1]

\* a relaySession as handleDialInit stores it
newRelaySession(c, t) == [conn |-> c, accepted |-> FALSE, lastActivity |-> t]

\* a count of the accepted sessions instead
pendingRelaySessionsLocked_Accepted(m) == Cardinality({k \in DOMAIN m : m[k].accepted})

pendingRelaySessionsLocked(m) == Cardinality({k \in DOMAIN m : ~m[k].accepted})

\* relayConn.markRemoteClosed on the conns of C: the flag, and the close of
\* the incoming channel unless the flag was already set
markRemoteClosedFlag(rc, C) == rc \cup C

markRemoteClosedChan(rc, cc, C) == cc \cup (C \ rc)

\* relayConn.Close on the conns of C: closeOnce lets the first call through
closeFirst(cl, C) == C \ cl

\* ... which runs the on-closed hook of handleDialInit: delete by key
onClosedKeys(cl, C) == {KeyOf(c) : c \in closeFirst(cl, C)}

\* ... and hands one signalClose to sendSignal
closeSignals(cl, C) ==
    SetToBag({[type |-> "close", key |-> KeyOf(c)] : c \in closeFirst(cl, C)})

Idle == [pc |-> "idle"]

NoOp == [op |-> "none"]

\* ------------------------------------------------------------------------
\* Init
\* ------------------------------------------------------------------------
FloodKeys(n) == {<<FloodPeer, i>> : i \in 1..n}

InitSys ==
    /\ closedConns = {}
    /\ remoteClosed = {}
    /\ chanClosed = {}
    /\ incoming = <<>>
    /\ connCh = <<>>
    /\ lclosed = FALSE
    /\ rl = Idle
    /\ acc = [pc |-> "idle", startClosed |-> FALSE]
    /\ now = 0
    /\ nData = 0
    /\ panicked = FALSE
    /\ sent = EmptyBag
    /\ last = NoOp
    /\ link = <<>>
    /\ wrote = <<>>
    /\ peerClosed = FALSE
    /\ readBuf = <<>>
    /\ rd = Idle
    /\ got = <<>>
    /\ dial = [pc |-> "start", result |-> "none", why |-> "none", start |-> 0, end |-> 0,
               ackCh |-> 0, recvErrCh |-> 0, derpClosed |-> FALSE, recvDone |-> FALSE,
               ackArrived |-> FALSE, foreignAck |-> FALSE, nEnv |-> 0]
    /\ svc = [closed |-> FALSE, once |-> "new", client |-> "open", got |-> FALSE,
              listenerShut |-> 0, clientShut |-> 0, all |-> {}, keys |-> {},
              cur |-> <<>>, callers |-> [c \in Closers |-> "idle"], calls |-> 0]
    /\ rcClose = [once |-> "new", callers |-> [c \in Closers |-> "idle"], calls |-> 0,
             closes |-> 0, hookRuns |-> 0, signals |-> 0]
    /\ derp = [pc |-> "top", current |-> 1, mine |-> 0, nClients |-> 1, shut |-> {},
               fails |-> 0, recvFails |-> 0, recvs |-> 0, sends |-> 0, born |-> <<>>]

InitRest ==
    /\ InitSys
    /\ call = [op |-> "none"]

InitCommon ==
    /\ held = {}
    /\ pushed = {}
    /\ InitRest

\* the state after Start; the flooding peer's session ids and the conns'
\* serial numbers are counted from first
InitEmpty(first) ==
    /\ sessions = <<>>
    /\ nConns = first - 1
    /\ nextSid = first
    /\ InitCommon

\* the state after FloodBase dialInit messages of the flooding peer, all
\* handled at time 0 (SpecFlood reaches it from InitEmpty(1): FloodReachesBase)
FloodedSessions(n) ==
    [k \in FloodKeys(n) |-> newRelaySession(newRelayConn(k, k[2]), 0)]

InitFlooded ==
    /\ sessions = FloodedSessions(FloodBase)
    /\ nConns = FloodBase
    /\ nextSid = FloodBase + 1
    /\ InitCommon

Init == InitEmpty(FloodBase + 1)

\* ------------------------------------------------------------------------
\* Service.handleDialInit
\* ------------------------------------------------------------------------
\* a limit test that lets one session more in
pendingLimitReached_OffByOne(m) == pendingRelaySessionsLocked(m) > maxPendingRelaySessions

\* the cap test of handleDialInit, taken when the key is absent
pendingLimitReached(m) == pendingRelaySessionsLocked(m) >= maxPendingRelaySessions

\* a dialInit that replaces the session of a key of the table
dialInitRefresh_Replaces(m, key, t) ==
    [m EXCEPT ![key] = newRelaySession(newRelayConn(key, 0), t)]

\* the table after handleDialInit found key in it: the same session, touched
dialInitRefresh(m, key, t) == [m EXCEPT ![key].lastActivity = t]

\* a handleDialInit that acks the dialInit it turned away as well
dialInitReply_AcksRejected(key, rejected) ==
    IF rejected
    THEN SetToBag({[type |-> "close", key |-> key], [type |-> "dialAck", key |-> key]})
    ELSE SetToBag({[type |-> "dialAck", key |-> key]})

\* the signals handleDialInit hands to sendDERPSignal: a signalClose for
\* the dialInit turned away at the cap, a signalDialAck otherwise
dialInitReply(key, rejected) ==
    IF rejected THEN SetToBag({[type |-> "close", key |-> key]})
    ELSE SetToBag({[type |-> "dialAck", key |-> key]})

handleDialInit(key) ==
    /\ rl.pc = "idle"
    /\ ~panicked
    /\ IF key \notin DOMAIN sessions
       THEN IF pendingLimitReached(sessions)
            THEN /\ UNCHANGED <<sessions, nConns>>
                 /\ sent' = dialInitReply(key, TRUE)
                 /\ last' = [op |-> "dialInit", key |-> key, outcome |-> "rejected"]
            ELSE /\ nConns' = nConns + 1
                 /\ sessions' = MapPut(sessions, key,
                                       newRelaySession(newRelayConn(key, nConns + 1), now))
                 /\ sent' = dialInitReply(key, FALSE)
                 /\ last' = [op |-> "dialInit", key |-> key, outcome |-> "created"]
       ELSE /\ sessions' = dialInitRefresh(sessions, key, now)
            /\ UNCHANGED nConns
            /\ sent' = dialInitReply(key, FALSE)
            /\ last' = [op |-> "dialInit", key |-> key, outcome |-> "refreshed"]
    /\ UNCHANGED <<connVars, connCh, lclosed, rl, acc, held, pushed, now, nData, panicked>>

\* ------------------------------------------------------------------------
\* Service.routeRelayData: the locked lookup, then listener.push (its closed
\* test, then its select), then relayConn.pushIncoming
\* ------------------------------------------------------------------------
\* a lookup that refreshes last_activity and leaves the accepted flag alone
markAccepted_Not(m, key, t) == [m EXCEPT ![key].lastActivity = t]

\* the lookup of routeRelayData: the session is marked accepted and its
\* last_activity refreshed
markAccepted(m, key, t) == [m EXCEPT ![key].lastActivity = t, ![key].accepted = TRUE]

\* a routeRelayData that pushes the conn for every data message
needsPush_Always(session) == TRUE

\* needsPush of routeRelayData: the session was not accepted
needsPush(session) == ~session.accepted

routeRelayData(key, payload) ==
    /\ rl.pc = "idle"
    /\ ~panicked
    /\ IF key \in DOMAIN sessions
       THEN /\ sessions' = markAccepted(sessions, key, now)
            /\ rl' = [pc |-> IF needsPush(sessions[key]) THEN "push" ELSE "deliver",
                      conn |-> sessions[key].conn, payload |-> payload]
            /\ last' = [op |-> "data", key |-> key, found |-> TRUE,
                        needsPush |-> needsPush(sessions[key])]
       ELSE /\ UNCHANGED <<sessions, rl>>
            /\ last' = [op |-> "data", key |-> key, found |-> FALSE, needsPush |-> FALSE]
    /\ sent' = EmptyBag
    /\ UNCHANGED <<nConns, connVars, connCh, lclosed, acc, held, pushed, now, panicked>>

\* routeRelayData when listener.push returned an error: markRemoteClosed,
\* Close (whose hook deletes the key), return
pushFailed(why) ==
    /\ remoteClosed' = markRemoteClosedFlag(remoteClosed, {rl.conn})
    /\ chanClosed' = markRemoteClosedChan(remoteClosed, chanClosed, {rl.conn})
    /\ closedConns' = closedConns \cup {rl.conn}
    /\ sessions' = MapDelete(sessions, onClosedKeys(closedConns, {rl.conn}))
    /\ sent' = closeSignals(closedConns, {rl.conn})
    /\ rl' = Idle
    /\ last' = [op |-> "push", conn |-> rl.conn, err |-> why]
    /\ UNCHANGED <<incoming, connCh, pushed>>

\* connListener.push, the test of l.closed under l.mu
pushCheck ==
    /\ rl.pc = "push"
    /\ ~panicked
    /\ IF lclosed
       THEN pushFailed("closed")
       ELSE /\ rl' = [rl EXCEPT !.pc = "pushSelect"]
            /\ sent' = EmptyBag
            /\ last' = [op |-> "pushCheck", conn |-> rl.conn]
            /\ UNCHANGED <<sessions, connVars, connCh, pushed>>
    /\ UNCHANGED <<nConns, lclosed, acc, held, now, nextSid, nData, panicked>>

\* connListener.push, the select: closeCh, the send on connCh, or the 2 s
\* timer (which can only win while the queue stays full)
\* a connCh without a capacity
connChFull_Never(q) == FALSE

\* the send on connCh would block: the channel holds connChCapacity conns
connChFull(q) == Len(q) >= connChCapacity

\* the select of connListener.push: closeCh, the send on connCh, or the
\* timer, which can win only while the send blocks
pushSelect ==
    /\ rl.pc = "pushSelect"
    /\ ~panicked
    /\ \/ /\ lclosed
          /\ pushFailed("closed")
       \/ /\ ~connChFull(connCh)
          /\ connCh' = Append(connCh, rl.conn)
          /\ pushed' = pushed \cup {rl.conn}
          /\ rl' = [rl EXCEPT !.pc = "deliver"]
          /\ sent' = EmptyBag
          /\ last' = [op |-> "push", conn |-> rl.conn, err |-> "none"]
          /\ UNCHANGED <<sessions, connVars>>
       \/ /\ ~lclosed
          /\ connChFull(connCh)
          /\ pushFailed("overloaded")
    /\ UNCHANGED <<nConns, lclosed, acc, held, now, nextSid, nData, panicked>>

\* relayConn.pushIncoming on a conn that is closed or not, whose incoming
\* channel is closed or not and holds queued payloads: "dropped" when the
\* conn is closed, "panic" on a closed channel, "queued" when a slot is
\* free, "blocked" otherwise
pushIncoming(isClosed, isChanClosed, queued) ==
    IF isClosed THEN "dropped"
    ELSE IF isChanClosed THEN "panic"
    ELSE IF queued < incomingCapacity THEN "queued"
    ELSE "blocked"

deliver ==
    LET q == MapGet(incoming, rl.conn, <<>>)
        r == pushIncoming(rl.conn \in closedConns, rl.conn \in chanClosed, Len(q))
    IN  /\ rl.pc = "deliver"
        /\ ~panicked
        /\ r # "blocked"
        /\ incoming' = IF r = "queued"
                       THEN MapPut(incoming, rl.conn, Append(q, rl.payload))
                       ELSE incoming
        /\ panicked' = (r = "panic")
        /\ rl' = Idle
        /\ sent' = EmptyBag
        /\ last' = [op |-> "deliver", conn |-> rl.conn, result |-> r]
        /\ UNCHANGED <<sessions, nConns, closedConns, remoteClosed, chanClosed, connCh,
                       lclosed, acc, held, pushed, now, nextSid, nData>>

\* ------------------------------------------------------------------------
\* Service.routeRelayClose
\* ------------------------------------------------------------------------
\* a routeRelayClose that closes the conn whether accepted or not
routeRelayCloseCloses_Always(s) == {s.conn}

\* the conns routeRelayClose closes locally: the session's, unless accepted
routeRelayCloseCloses(s) == IF s.accepted THEN {} ELSE {s.conn}

routeRelayClose(key) ==
    /\ rl.pc = "idle"
    /\ ~panicked
    /\ IF key \in DOMAIN sessions
       THEN LET s == sessions[key]
            IN  /\ sessions' = MapDelete(sessions, {key})
                /\ remoteClosed' = markRemoteClosedFlag(remoteClosed, {s.conn})
                /\ chanClosed' = markRemoteClosedChan(remoteClosed, chanClosed, {s.conn})
                /\ closedConns' = closedConns \cup routeRelayCloseCloses(s)
                /\ sent' = closeSignals(closedConns, routeRelayCloseCloses(s))
                /\ last' = [op |-> "close", key |-> key, found |-> TRUE, conn |-> s.conn,
                            accepted |-> s.accepted]
       ELSE /\ UNCHANGED <<sessions, closedConns, remoteClosed, chanClosed>>
            /\ sent' = EmptyBag
            /\ last' = [op |-> "close", key |-> key, found |-> FALSE]
    /\ UNCHANGED <<nConns, incoming, connCh, lclosed, rl, acc, held, pushed, now,
                   nextSid, nData, panicked>>

\* ------------------------------------------------------------------------
\* Service.prunePendingRelaySessions
\* ------------------------------------------------------------------------
\* a comparison that also holds of equal times
After_OrEqual(t, u) == t >= u

\* time.Time.After
After(t, u) == t > u

\* the keys the sweep deletes at time t
staleKeys(m, t) ==
    {k \in DOMAIN m :
        ~(m[k].accepted \/ After(m[k].lastActivity, t - pendingRelaySessionTTL))}

prunePendingRelaySessions ==
    /\ ~panicked
    /\ LET keys == staleKeys(sessions, now)
           stale == {sessions[k].conn : k \in keys}
       IN  /\ sessions' = MapDelete(sessions, keys \cup onClosedKeys(closedConns, stale))
           /\ remoteClosed' = markRemoteClosedFlag(remoteClosed, stale)
           /\ chanClosed' = markRemoteClosedChan(remoteClosed, chanClosed, stale)
           /\ closedConns' = closedConns \cup stale
           /\ sent' = closeSignals(closedConns, stale)
           /\ last' = [op |-> "prune", removed |-> Cardinality(keys)]
    /\ UNCHANGED <<nConns, incoming, connCh, lclosed, rl, acc, held, pushed, now,
                   nextSid, nData, panicked>>

\* the clock advances, in steps of the TTL: a session's age is 0, exactly
\* the TTL, or more
Tick ==
    /\ now < MaxNow
    /\ now' = now + pendingRelaySessionTTL
    /\ sent' = EmptyBag
    /\ last' = NoOp
    /\ UNCHANGED <<sessions, nConns, connVars, connCh, lclosed, rl, acc, held, pushed,
                   nextSid, nData, panicked>>

\* ------------------------------------------------------------------------
\* connListener.Close and connListener.Accept
\* ------------------------------------------------------------------------
\* a Close that closes closeCh whether the listener is closed or not
closeChCloses_Always(closed) == 1

\* how often connListener.Close runs close(l.closeCh): not on a listener
\* that is closed
closeChCloses(closed) == IF closed THEN 0 ELSE 1

connListenerClose ==
    /\ ~panicked
    /\ lclosed' = TRUE
    /\ sent' = EmptyBag
    /\ last' = [op |-> "listenerClose", err |-> IF lclosed THEN "closed" ELSE "none",
                closes |-> closeChCloses(lclosed)]
    /\ UNCHANGED <<sessions, nConns, connVars, connCh, rl, acc, held, pushed, now,
                   nextSid, nData, panicked>>

\* an Accept without its first select
acceptSeesClosed_Never(closed) == FALSE

\* the first select of Accept: closeCh, or default
acceptSeesClosed(closed) == closed

AcceptStart ==
    /\ acc.pc = "idle"
    /\ ~panicked
    /\ IF acceptSeesClosed(lclosed)
       THEN /\ acc' = [pc |-> "idle", startClosed |-> lclosed]
            /\ last' = [op |-> "accept", err |-> "closed", startClosed |-> lclosed]
       ELSE /\ acc' = [pc |-> "wait", startClosed |-> lclosed]
            /\ last' = [op |-> "acceptStart"]
    /\ sent' = EmptyBag
    /\ UNCHANGED <<sessions, nConns, connVars, connCh, lclosed, rl, held, pushed, now,
                   nextSid, nData, panicked>>

\* the second select of Accept: closeCh or connCh, whichever is ready
AcceptWait ==
    /\ acc.pc = "wait"
    /\ ~panicked
    /\ \/ /\ lclosed
          /\ last' = [op |-> "accept", err |-> "closed", startClosed |-> acc.startClosed]
          /\ UNCHANGED <<connCh, held>>
       \/ /\ connCh # <<>>
          /\ connCh' = Tail(connCh)
          /\ held' = held \cup {Head(connCh)}
          /\ last' = [op |-> "accept", err |-> "none", startClosed |-> acc.startClosed,
                      conn |-> Head(connCh)]
    /\ acc' = [acc EXCEPT !.pc = "idle"]
    /\ sent' = EmptyBag
    /\ UNCHANGED <<sessions, nConns, connVars, lclosed, rl, pushed, now, nextSid, nData,
                   panicked>>

\* ------------------------------------------------------------------------
\* relayConn.Close, called by the application on a conn Accept returned
\* ------------------------------------------------------------------------
relayConnClose(c) ==
    /\ ~panicked
    /\ closedConns' = closedConns \cup {c}
    /\ sessions' = MapDelete(sessions, onClosedKeys(closedConns, {c}))
    /\ sent' = closeSignals(closedConns, {c})
    /\ last' = [op |-> "connClose", conn |-> c]
    /\ UNCHANGED <<nConns, remoteClosed, chanClosed, incoming, connCh, lclosed, rl, acc,
                   held, pushed, now, nextSid, nData, panicked>>

\* ------------------------------------------------------------------------
\* The service under its environment: the hot peer's messages for a few
\* keys, the flooding peer's dialInit messages, the sweeper, the clock, and
\* the application
\* ------------------------------------------------------------------------
\* conns created for the hot peer so far (the flooding peer moves to its
\* next session id with each conn created for it)
hotConns == nConns - (nextSid - 1)

DialInitHot ==
    \E key \in HotKeys :
        /\ key \in DOMAIN sessions \/ hotConns < MaxHotConns
        /\ handleDialInit(key)
        /\ UNCHANGED nextSid

\* the flooding peer dials its next session id, and goes on to a never-seen
\* one once a session was created for it
DialInitFresh ==
    /\ nextSid <= FloodBase + MaxFresh
    /\ handleDialInit(<<FloodPeer, nextSid>>)
    /\ nextSid' = IF pendingLimitReached(sessions) THEN nextSid ELSE nextSid + 1

Data ==
    \E key \in HotKeys :
        /\ nData < MaxData
        /\ routeRelayData(key, nData + 1)
        /\ nData' = nData + 1
        /\ UNCHANGED nextSid

CloseMsg == \E key \in HotKeys : routeRelayClose(key)

AppClose == \E c \in held : relayConnClose(c)

Next ==
    \/ DialInitHot /\ UNCHANGED clientVars
    \/ DialInitFresh /\ UNCHANGED clientVars
    \/ Data /\ UNCHANGED clientVars
    \/ pushCheck /\ UNCHANGED clientVars
    \/ pushSelect /\ UNCHANGED clientVars
    \/ deliver /\ UNCHANGED clientVars
    \/ CloseMsg /\ UNCHANGED clientVars
    \/ prunePendingRelaySessions /\ UNCHANGED clientVars
    \/ Tick /\ UNCHANGED clientVars
    \/ connListenerClose /\ UNCHANGED clientVars
    \/ AcceptStart /\ UNCHANGED clientVars
    \/ AcceptWait /\ UNCHANGED clientVars
    \/ AppClose /\ UNCHANGED clientVars

vars == <<svcVars, clientVars>>

Spec == Init /\ [][Next]_vars

\* the same service with its listener left open, started with the flooding
\* peer's first FloodBase dialInit messages already handled
NextCap ==
    \/ DialInitHot /\ UNCHANGED clientVars
    \/ DialInitFresh /\ UNCHANGED clientVars
    \/ Data /\ UNCHANGED clientVars
    \/ pushCheck /\ UNCHANGED clientVars
    \/ pushSelect /\ UNCHANGED clientVars
    \/ deliver /\ UNCHANGED clientVars
    \/ CloseMsg /\ UNCHANGED clientVars
    \/ prunePendingRelaySessions /\ UNCHANGED clientVars
    \/ Tick /\ UNCHANGED clientVars
    \/ AcceptStart /\ UNCHANGED clientVars
    \/ AcceptWait /\ UNCHANGED clientVars
    \/ AppClose /\ UNCHANGED clientVars

SpecCap == InitFlooded /\ [][NextCap]_vars

\* ------------------------------------------------------------------------
\* The flood of TestHandleDialInitCapsPendingRelaySessions: dialInit
\* messages of one peer with never-seen session ids, nothing in between
\* ------------------------------------------------------------------------
FloodDialInit ==
    /\ nextSid <= MaxFlood
    /\ handleDialInit(<<FloodPeer, nextSid>>)
    /\ nextSid' = nextSid + 1

NextFlood == FloodDialInit /\ UNCHANGED clientVars

InitFlood == InitEmpty(1)

SpecFlood == InitFlood /\ [][NextFlood]_vars

\* the Init of SpecCap is the state the flood reaches after FloodBase
\* messages
FloodReachesBase ==
    nextSid = FloodBase + 1 =>
        /\ sessions = FloodedSessions(FloodBase)
        /\ nConns = FloodBase


\* ------------------------------------------------------------------------
\* The accept queue at its capacity: a peer opens QueueBase sessions and
\* sends one data message on each while the application accepts nothing;
\* then the hot peer dials and sends data, and the application starts to
\* accept or closes the listener
\* ------------------------------------------------------------------------
QueueBase == connChCapacity - 1

QueueFilled == nextSid > QueueBase

FillDialInit ==
    /\ ~QueueFilled
    /\ <<FloodPeer, nextSid>> \notin DOMAIN sessions
    /\ handleDialInit(<<FloodPeer, nextSid>>)
    /\ UNCHANGED nextSid

FillData ==
    /\ ~QueueFilled
    /\ <<FloodPeer, nextSid>> \in DOMAIN sessions
    /\ routeRelayData(<<FloodPeer, nextSid>>, 0)
    /\ nextSid' = nextSid + 1
    /\ UNCHANGED nData

QueueDialInit ==
    \E key \in CloseKeys :
        /\ QueueFilled
        /\ nConns < QueueBase + MaxQueueConns
        /\ handleDialInit(key)
        /\ UNCHANGED nextSid

QueueData ==
    \E key \in CloseKeys :
        /\ QueueFilled
        /\ nData < MaxData
        /\ routeRelayData(key, nData + 1)
        /\ nData' = nData + 1
        /\ UNCHANGED nextSid

NextQueue ==
    \/ FillDialInit /\ UNCHANGED clientVars
    \/ FillData /\ UNCHANGED clientVars
    \/ QueueDialInit /\ UNCHANGED clientVars
    \/ QueueData /\ UNCHANGED clientVars
    \/ pushCheck /\ UNCHANGED clientVars
    \/ pushSelect /\ UNCHANGED clientVars
    \/ deliver /\ UNCHANGED clientVars
    \/ QueueFilled /\ connListenerClose /\ UNCHANGED clientVars
    \/ QueueFilled /\ Cardinality(held) < MaxQueueAccepts /\ AcceptStart
         /\ UNCHANGED clientVars
    \/ QueueFilled /\ AcceptWait /\ UNCHANGED clientVars

SpecQueue == InitEmpty(1) /\ [][NextQueue]_vars

\* ------------------------------------------------------------------------
\* A session whose application never reads: the flooding peer opens one
\* session and sends data until the conn's incoming queue is full; then the
\* hot peer's messages arrive as well
\* ------------------------------------------------------------------------
StallKey == <<FloodPeer, 1>>

StallConn == newRelayConn(StallKey, 1)

StallFull == Len(MapGet(incoming, StallConn, <<>>)) = incomingCapacity

StallDial ==
    /\ nextSid = 1
    /\ handleDialInit(StallKey)
    /\ nextSid' = nextSid + 1
    /\ UNCHANGED nData

StallData ==
    /\ StallKey \in DOMAIN sessions
    /\ routeRelayData(StallKey, 0)
    /\ UNCHANGED <<nextSid, nData>>

NextStall ==
    \/ StallDial /\ UNCHANGED clientVars
    \/ StallData /\ UNCHANGED clientVars
    \/ StallFull /\ DialInitHot /\ UNCHANGED clientVars
    \/ StallFull /\ Data /\ UNCHANGED clientVars
    \/ StallFull /\ CloseMsg /\ UNCHANGED clientVars
    \/ pushCheck /\ UNCHANGED clientVars
    \/ pushSelect /\ UNCHANGED clientVars
    \/ deliver /\ UNCHANGED clientVars
    \/ AcceptStart /\ UNCHANGED clientVars
    \/ AcceptWait /\ UNCHANGED clientVars
    \/ StallFull /\ AppClose /\ UNCHANGED clientVars

\* the receive loop runs whenever its next step can be taken; nothing makes
\* the application read or close
StallFairness ==
    /\ WF_vars(pushCheck /\ UNCHANGED clientVars)
    /\ WF_vars(pushSelect /\ UNCHANGED clientVars)
    /\ WF_vars(deliver /\ UNCHANGED clientVars)

SpecStall == InitEmpty(1) /\ [][NextStall]_vars /\ StallFairness

\* ------------------------------------------------------------------------
\* One session as a byte stream: the peer's relayConn.Write and Close, the
\* link that carries their envelopes in order, the service's routing, and
\* the application's Accept, Read and Close
\* ------------------------------------------------------------------------
StreamKey == <<HotPeer, 1>>

Min(a, b) == IF a < b THEN a ELSE b

\* the chunks relayConn.Write cuts b into
writeChunks(b) ==
    LET RECURSIVE cut(_)
        cut(written) ==
            IF written >= Len(b) THEN <<>>
            ELSE LET limit == Min(Len(b) - written, maxChunk)
                 IN  <<SubSeq(b, written + 1, written + limit)>> \o cut(written + limit)
    IN  cut(0)

\* a read that throws the residue away
bufferRead_DropsResidue(buf, n) ==
    [out |-> SubSeq(buf, 1, Min(n, Len(buf))), rest |-> <<>>]

\* bytes.Buffer.Read into a slice of n bytes
bufferRead(buf, n) ==
    [out |-> SubSeq(buf, 1, Min(n, Len(buf))),
     rest |-> SubSeq(buf, Min(n, Len(buf)) + 1, Len(buf))]

\* Dial on the peer: its dialInit, handled by the service
PeerDial ==
    /\ nConns = 0
    /\ handleDialInit(StreamKey)
    /\ UNCHANGED <<nextSid, clientVars>>

\* relayConn.Write on the peer, of the next k bytes of its stream
PeerWrite ==
    \E k \in 1..MaxWrite :
        LET b == [i \in 1..k |-> Len(wrote) + i]
        IN  /\ nConns = 1
            /\ ~peerClosed
            /\ Len(wrote) + k <= MaxBytes
            /\ link' = link \o [i \in 1..Len(writeChunks(b)) |->
                                   [type |-> "data", payload |-> writeChunks(b)[i]]]
            /\ wrote' = wrote \o b
            /\ UNCHANGED <<svcVars, peerClosed, readBuf, rd, got, dial, restVars>>

\* relayConn.Close on the peer
PeerClose ==
    /\ nConns = 1
    /\ ~peerClosed
    /\ peerClosed' = TRUE
    /\ link' = Append(link, [type |-> "close"])
    /\ UNCHANGED <<svcVars, wrote, readBuf, rd, got, dial, restVars>>

\* the receive loop takes the next envelope off the link
LinkData ==
    /\ link # <<>>
    /\ Head(link).type = "data"
    /\ routeRelayData(StreamKey, Head(link).payload)
    /\ link' = Tail(link)
    /\ UNCHANGED <<nextSid, nData, wrote, peerClosed, readBuf, rd, got, dial, restVars>>

LinkClose ==
    /\ link # <<>>
    /\ Head(link).type = "close"
    /\ routeRelayClose(StreamKey)
    /\ link' = Tail(link)
    /\ UNCHANGED <<wrote, peerClosed, readBuf, rd, got, dial, restVars>>

\* whether the conn was closed when the Read under way was called (history)
readStartsClosed(c) == IF rd.pc = "idle" THEN c \in closedConns ELSE rd.startClosed

\* relayConn.Read, one turn of its loop up to the select: the residue of
\* the read buffer, else EOF on the remoteClosed flag, else on to the select
readLocked(c, n) ==
    LET buf == MapGet(readBuf, c, <<>>)
        r == bufferRead(buf, n)
    IN  /\ ~panicked
        /\ IF buf # <<>>
           THEN /\ readBuf' = MapPut(readBuf, c, r.rest)
                /\ got' = MapPut(got, c, MapGet(got, c, <<>>) \o r.out)
                /\ rd' = Idle
                /\ last' = [op |-> "read", conn |-> c, result |-> "data"]
           ELSE IF c \in remoteClosed
           THEN /\ rd' = Idle
                /\ last' = [op |-> "read", conn |-> c, result |-> "EOF"]
                /\ UNCHANGED <<readBuf, got>>
           ELSE /\ rd' = [pc |-> "select", conn |-> c, n |-> n,
                            startClosed |-> readStartsClosed(c)]
                /\ last' = [op |-> "readWait", conn |-> c]
                /\ UNCHANGED <<readBuf, got>>
        /\ sent' = EmptyBag
        /\ UNCHANGED <<sessions, nConns, connVars, connCh, lclosed, rl, acc, held, pushed,
                       now, nextSid, nData, panicked, link, wrote, peerClosed, dial, restVars>>

\* the application calls Read with a buffer of n bytes
ReadCall ==
    \E c \in held, n \in 1..MaxBuf :
        /\ rd.pc = "idle"
        /\ readLocked(c, n)

\* Read after its select took a payload or found the channel closed
ReadAgain ==
    /\ rd.pc = "loop"
    /\ readLocked(rd.conn, rd.n)

\* the select of Read: a payload of the incoming channel, the channel found
\* closed and empty, or the conn closed
ReadSelect ==
    LET c == rd.conn
        q == MapGet(incoming, c, <<>>)
    IN  /\ rd.pc = "select"
        /\ ~panicked
        /\ \/ /\ q # <<>>
              /\ incoming' = MapPut(incoming, c, Tail(q))
              /\ readBuf' = MapPut(readBuf, c, MapGet(readBuf, c, <<>>) \o Head(q))
              /\ rd' = [rd EXCEPT !.pc = "loop"]
              /\ last' = [op |-> "readTake", conn |-> c]
              /\ UNCHANGED remoteClosed
           \/ /\ q = <<>>
              /\ c \in chanClosed
              /\ remoteClosed' = remoteClosed \cup {c}
              /\ rd' = [rd EXCEPT !.pc = "loop"]
              /\ last' = [op |-> "readTake", conn |-> c]
              /\ UNCHANGED <<incoming, readBuf>>
           \/ /\ c \in closedConns
              /\ rd' = Idle
              /\ last' = [op |-> "read", conn |-> c, result |-> "closed"]
              /\ UNCHANGED <<incoming, readBuf, remoteClosed>>
        /\ sent' = EmptyBag
        /\ UNCHANGED <<sessions, nConns, closedConns, chanClosed, connCh, lclosed, rl, acc,
                       held, pushed, now, nextSid, nData, panicked, link, wrote,
                       peerClosed, got, dial, restVars>>

NextStream ==
    \/ PeerDial
    \/ PeerWrite
    \/ PeerClose
    \/ LinkData
    \/ LinkClose
    \/ pushCheck /\ UNCHANGED clientVars
    \/ pushSelect /\ UNCHANGED clientVars
    \/ deliver /\ UNCHANGED clientVars
    \/ AcceptStart /\ UNCHANGED clientVars
    \/ AcceptWait /\ UNCHANGED clientVars
    \/ ReadCall
    \/ ReadAgain
    \/ ReadSelect
    \/ AppClose /\ UNCHANGED clientVars

InitStream == InitEmpty(1)

SpecStream == InitStream /\ [][NextStream]_vars

\* ------------------------------------------------------------------------
\* Dial on the client: its receive goroutine, the dialInit it sends, and
\* the select that waits for the acknowledgement
\* ------------------------------------------------------------------------
ServerKey == "s"

OtherKey == "o"

OwnSession == 1

OtherSession == 2

\* the relayConn Dial creates
DialConn == newRelayConn(<<ServerKey, OwnSession>>, 1)

\* the packets Recv may return.  The server sends no data for a session
\* after the session's close.
DialEnvelopes ==
    [source : {ServerKey, OtherKey}, decodes : BOOLEAN,
     session : {OwnSession, OtherSession}, type : {"dialAck", "data", "close"}]

\* a filter without the test of the source
dialAccepts_AnySource(e) ==
    /\ e.decodes
    /\ e.session = OwnSession

\* the receive goroutine's filter: the source is the token's server key,
\* the payload decodes, and the session id is Dial's own
dialAccepts(e) ==
    /\ e.source = ServerKey
    /\ e.decodes
    /\ e.session = OwnSession

\* closeDERP
closeDERP(d) == [d EXCEPT !.derpClosed = TRUE]

\* time.After(5 s), read when elapsed seconds have passed since the select
\* was entered
timerFired(elapsed) == elapsed >= dialAckTimeout

\* Dial sends its dialInit; when the send fails it closes the client and
\* returns the error, else it enters the select
DialSend ==
    \E ok \in BOOLEAN :
        /\ dial.pc = "start"
        /\ dial' = IF ok
                   THEN [dial EXCEPT !.pc = "wait", !.start = now]
                   ELSE [closeDERP(dial) EXCEPT !.pc = "returned", !.result = "error",
                                                !.why = "send", !.start = now, !.end = now]
        /\ sent' = IF ok THEN SetToBag({[type |-> "dialInit", key |-> KeyOf(DialConn)]})
                         ELSE EmptyBag
        /\ last' = [op |-> "dialSend", ok |-> ok]
        /\ UNCHANGED <<sessions, nConns, connVars, connCh, lclosed, rl, acc, held, pushed,
                       now, nextSid, nData, panicked, streamVars, restVars>>

\* the receive goroutine, one turn of its loop with a packet from Recv
DialRecv ==
    \E e \in DialEnvelopes :
        LET q == MapGet(incoming, DialConn, <<>>)
            r == pushIncoming(DialConn \in closedConns, DialConn \in chanClosed, Len(q))
            routed == dialAccepts(e)
        IN  /\ ~dial.recvDone
            /\ ~dial.derpClosed
            /\ dial.nEnv < MaxEnv
            /\ ~(e.source = ServerKey /\ e.decodes /\ e.session = OwnSession
                    /\ e.type = "data" /\ DialConn \in remoteClosed)
            /\ routed /\ e.type = "data" => r # "blocked"
            /\ dial' = [dial EXCEPT
                          !.nEnv = @ + 1,
                          !.ackCh = IF routed /\ e.type = "dialAck" THEN 1 ELSE @,
                          !.ackArrived = @ \/ (/\ e.source = ServerKey
                                               /\ e.decodes
                                               /\ e.session = OwnSession
                                               /\ e.type = "dialAck"),
                          !.foreignAck = @ \/ (/\ e.type = "dialAck"
                                               /\ e.decodes
                                               /\ \/ e.source # ServerKey
                                                  \/ e.session # OwnSession)]
            /\ incoming' = IF routed /\ e.type = "data" /\ r = "queued"
                           THEN MapPut(incoming, DialConn, Append(q, 1))
                           ELSE incoming
            /\ panicked' = (panicked \/ (routed /\ e.type = "data" /\ r = "panic"))
            /\ remoteClosed' = IF routed /\ e.type = "close"
                               THEN markRemoteClosedFlag(remoteClosed, {DialConn})
                               ELSE remoteClosed
            /\ chanClosed' = IF routed /\ e.type = "close"
                             THEN markRemoteClosedChan(remoteClosed, chanClosed, {DialConn})
                             ELSE chanClosed
            /\ sent' = EmptyBag
            /\ last' = [op |-> "dialRecv", env |-> e, routed |-> routed]
            /\ UNCHANGED <<sessions, nConns, closedConns, connCh, lclosed, rl, acc, held,
                           pushed, now, nextSid, nData, streamVars, restVars>>

\* Recv returns an error (the link failed, or the client was closed): the
\* goroutine marks the conn remote-closed, reports the error and ends
DialRecvError ==
    /\ ~dial.recvDone
    /\ dial' = [dial EXCEPT !.recvDone = TRUE, !.recvErrCh = 1]
    /\ remoteClosed' = markRemoteClosedFlag(remoteClosed, {DialConn})
    /\ chanClosed' = markRemoteClosedChan(remoteClosed, chanClosed, {DialConn})
    /\ sent' = EmptyBag
    /\ last' = [op |-> "dialRecvError"]
    /\ UNCHANGED <<sessions, nConns, closedConns, incoming, connCh, lclosed, rl, acc, held,
                   pushed, now, nextSid, nData, panicked, streamVars, restVars>>

\* the select of Dial: the acknowledgement, the goroutine's error, or the
\* timer
DialSelect ==
    /\ dial.pc = "wait"
    /\ \/ /\ dial.ackCh = 1
          /\ dial' = [dial EXCEPT !.pc = "returned", !.result = "conn", !.ackCh = 0,
                                  !.end = now]
       \/ /\ dial.recvErrCh = 1
          /\ dial' = [closeDERP(dial) EXCEPT !.pc = "returned", !.result = "error",
                                             !.why = "link", !.recvErrCh = 0, !.end = now]
       \/ /\ timerFired(now - dial.start)
          /\ dial' = [closeDERP(dial) EXCEPT !.pc = "returned", !.result = "error",
                                             !.why = "timeout", !.end = now]
    /\ sent' = EmptyBag
    /\ last' = [op |-> "dialSelect"]
    /\ UNCHANGED <<sessions, nConns, connVars, connCh, lclosed, rl, acc, held, pushed,
                   now, nextSid, nData, panicked, streamVars, restVars>>

\* a second passes, counted from the dialInit; none passes while Dial's
\* select has its timer to take
DialTick ==
    /\ now < MaxDialNow
    /\ dial.pc # "start"
    /\ ~(dial.pc = "wait" /\ timerFired(now - dial.start))
    /\ now' = now + 1
    /\ sent' = EmptyBag
    /\ last' = NoOp
    /\ UNCHANGED <<sessions, nConns, connVars, connCh, lclosed, rl, acc, held, pushed,
                   nextSid, nData, panicked, streamVars, dial, restVars>>

NextDial ==
    \/ DialSend
    \/ DialRecv
    \/ DialRecvError
    \/ DialSelect
    \/ DialTick

InitDial == InitEmpty(1)

\* the Dial goroutine runs, and time passes
SpecDial == InitDial /\ [][NextDial]_vars /\ WF_vars(DialSelect) /\ WF_vars(DialTick)

\* ------------------------------------------------------------------------
\* Service.Close, called by several goroutines, next to the receive loop
\* and the application
\* ------------------------------------------------------------------------
\* a Do that runs the function every time
onceDo_Always(once) == "run"

\* a Do that tests a flag without waiting for a running function
onceDo_Unsynchronised(once) == IF once = "done" THEN "return" ELSE "run"

\* sync.Once.Do: the caller that finds the Once new runs the function, a
\* caller that finds it running waits for it, a caller that finds it done
\* returns
onceDo(once) ==
    IF once = "new" THEN "run" ELSE IF once = "running" THEN "wait" ELSE "return"

svcUnchanged ==
    UNCHANGED <<sessions, nConns, connVars, connCh, lclosed, rl, acc, held, pushed, now,
                nextSid, nData, panicked, streamVars, dial, rcClose, call, derp>>

\* a goroutine calls Close: closeOnce.Do, and for the caller that runs the
\* function, close(s.closed)
SvcCloseCall ==
    \E c \in Closers :
        LET do == onceDo(svc.once)
        IN  /\ svc.callers[c] = "idle"
            /\ svc.calls < MaxCloseCalls
            /\ ~panicked
            /\ svc' = [svc EXCEPT
                          !.calls = @ + 1,
                          !.once = IF do = "run" THEN "running" ELSE @,
                          !.closed = IF do = "run" THEN TRUE ELSE @,
                          !.callers[c] = IF do = "run" THEN "listener"
                                         ELSE IF do = "wait" THEN "waiting" ELSE "idle"]
            /\ sent' = EmptyBag
            /\ last' = [op |-> "svcClose", caller |-> c, did |-> do]
            /\ svcUnchanged

\* a caller that waited for the Once returns when the function has run
SvcCloseWaited ==
    \E c \in Closers :
        /\ svc.callers[c] = "waiting"
        /\ svc.once = "done"
        /\ svc' = [svc EXCEPT !.callers[c] = "idle"]
        /\ sent' = EmptyBag
        /\ last' = [op |-> "svcClose", caller |-> c, did |-> "return"]
        /\ svcUnchanged

\* s.listener.Close()
SvcCloseListener ==
    \E c \in Closers :
        /\ svc.callers[c] = "listener"
        /\ lclosed' = TRUE
        /\ svc' = [svc EXCEPT !.callers[c] = "client",
                              !.listenerShut = IF lclosed THEN @ ELSE @ + 1]
        /\ sent' = EmptyBag
        /\ last' = [op |-> "svcCloseListener", err |-> IF lclosed THEN "closed" ELSE "none"]
        /\ UNCHANGED <<sessions, nConns, connVars, connCh, rl, acc, held, pushed, now,
                       nextSid, nData, panicked, streamVars, dial, rcClose, call, derp>>

\* s.derpClient is cleared under derpMu and the client that was there closed
SvcCloseClient ==
    \E c \in Closers :
        /\ svc.callers[c] = "client"
        /\ svc' = [svc EXCEPT !.callers[c] = "swap",
                              !.client = "nil",
                              !.clientShut = IF svc.client = "open" THEN @ + 1 ELSE @]
        /\ derp' = [derp EXCEPT !.shut = IF svc.client = "open"
                                         THEN @ \cup {derp.current} ELSE @]
        /\ sent' = EmptyBag
        /\ last' = [op |-> "svcCloseClient"]
        /\ UNCHANGED <<sessions, nConns, connVars, connCh, lclosed, rl, acc, held, pushed,
                       now, nextSid, nData, panicked, streamVars, dial, rcClose, call>>

\* under sessionMu: the conns of the table are collected and the table is
\* replaced by an empty one
SvcCloseSwap ==
    \E c \in Closers :
        /\ svc.callers[c] = "swap"
        /\ svc' = [svc EXCEPT !.callers[c] = "conns",
                              !.all = {sessions[k].conn : k \in DOMAIN sessions},
                              !.keys = DOMAIN sessions]
        /\ sessions' = <<>>
        /\ sent' = EmptyBag
        /\ last' = [op |-> "svcCloseSwap"]
        /\ UNCHANGED <<nConns, connVars, connCh, lclosed, rl, acc, held, pushed, now,
                       nextSid, nData, panicked, streamVars, dial, rcClose, call, derp>>

\* every collected conn is marked remote-closed and closed; the function of
\* the Once has run
SvcCloseConns ==
    \E c \in Closers :
        /\ svc.callers[c] = "conns"
        /\ ~panicked
        /\ remoteClosed' = markRemoteClosedFlag(remoteClosed, svc.all)
        /\ chanClosed' = markRemoteClosedChan(remoteClosed, chanClosed, svc.all)
        /\ closedConns' = closedConns \cup svc.all
        /\ sessions' = MapDelete(sessions, onClosedKeys(closedConns, svc.all))
        /\ sent' = closeSignals(closedConns, svc.all)
        /\ svc' = [svc EXCEPT !.callers[c] = "idle", !.once = "done"]
        /\ last' = [op |-> "svcCloseConns", caller |-> c]
        /\ UNCHANGED <<nConns, incoming, connCh, lclosed, rl, acc, held, pushed, now,
                       nextSid, nData, panicked, streamVars, dial, rcClose, call, derp>>

\* the receive loop: the test of s.closed and of the client, and Recv
\* returning a packet
SvcRecv ==
    /\ rl.pc = "idle"
    /\ ~panicked
    /\ ~svc.got
    /\ ~svc.closed
    /\ svc.client = "open"
    /\ svc' = [svc EXCEPT !.got = TRUE]
    /\ sent' = EmptyBag
    /\ last' = [op |-> "recv"]
    /\ svcUnchanged

\* the receive loop handles the packet it holds: a dialInit, a data or a
\* close message for one of the keys
SvcHandle ==
    \E key \in CloseKeys :
        /\ svc.got
        /\ svc' = [svc EXCEPT !.got = FALSE]
        /\ \/ /\ key \in DOMAIN sessions \/ nConns < MaxCloseConns
              /\ handleDialInit(key)
              /\ UNCHANGED nData
           \/ /\ nData < MaxData
              /\ routeRelayData(key, nData + 1)
              /\ nData' = nData + 1
           \/ /\ routeRelayClose(key)
        /\ UNCHANGED <<nextSid, streamVars, dial, rcClose, call, derp>>

NextClose ==
    \/ SvcCloseCall
    \/ SvcCloseWaited
    \/ SvcCloseListener
    \/ SvcCloseClient
    \/ SvcCloseSwap
    \/ SvcCloseConns
    \/ SvcRecv
    \/ SvcHandle
    \/ pushCheck /\ UNCHANGED clientVars
    \/ pushSelect /\ UNCHANGED clientVars
    \/ deliver /\ UNCHANGED clientVars
    \/ connListenerClose /\ UNCHANGED clientVars
    \/ AcceptStart /\ UNCHANGED clientVars
    \/ AcceptWait /\ UNCHANGED clientVars
    \/ AppClose /\ UNCHANGED clientVars

InitClose == InitEmpty(1)

SpecClose == InitClose /\ [][NextClose]_vars

\* ------------------------------------------------------------------------
\* Service.Close closing the collected conns one by one, next to the
\* receive loop, the listener and the application
\* ------------------------------------------------------------------------
\* the loop over the collected conns, first statement: conn.markRemoteClosed()
SvcCloseMark ==
    \E c \in Closers, x \in svc.all :
        /\ svc.callers[c] = "conns"
        /\ svc.cur = <<>>
        /\ ~panicked
        /\ remoteClosed' = markRemoteClosedFlag(remoteClosed, {x})
        /\ chanClosed' = markRemoteClosedChan(remoteClosed, chanClosed, {x})
        /\ svc' = [svc EXCEPT !.cur = x]
        /\ sent' = EmptyBag
        /\ last' = [op |-> "svcCloseMark", conn |-> x]
        /\ UNCHANGED <<sessions, nConns, closedConns, incoming, connCh, lclosed, rl, acc,
                       held, pushed, now, nextSid, nData, panicked, streamVars, dial,
                       rcClose, call, derp>>

\* the loop over the collected conns, second statement: conn.Close(), whose
\* hook deletes the conn's key and which hands one signalClose to sendSignal
SvcCloseOne ==
    \E c \in Closers :
        /\ svc.callers[c] = "conns"
        /\ svc.cur # <<>>
        /\ ~panicked
        /\ closedConns' = closedConns \cup {svc.cur}
        /\ sessions' = MapDelete(sessions, onClosedKeys(closedConns, {svc.cur}))
        /\ sent' = closeSignals(closedConns, {svc.cur})
        /\ svc' = [svc EXCEPT !.all = @ \ {svc.cur}, !.cur = <<>>]
        /\ last' = [op |-> "svcCloseOne", conn |-> svc.cur]
        /\ UNCHANGED <<nConns, remoteClosed, chanClosed, incoming, connCh, lclosed, rl,
                       acc, held, pushed, now, nextSid, nData, panicked, streamVars, dial,
                       rcClose, call, derp>>

\* the loop is over: the function of the Once has run and Close returns
SvcCloseDone ==
    \E c \in Closers :
        /\ svc.callers[c] = "conns"
        /\ svc.all = {}
        /\ svc.cur = <<>>
        /\ svc' = [svc EXCEPT !.callers[c] = "idle", !.once = "done"]
        /\ sent' = EmptyBag
        /\ last' = [op |-> "svcCloseDone", caller |-> c]
        /\ svcUnchanged

NextShutdown ==
    \/ svc.calls = 0 /\ SvcCloseCall
    \/ SvcCloseListener
    \/ SvcCloseClient
    \/ SvcCloseSwap
    \/ SvcCloseMark
    \/ SvcCloseOne
    \/ SvcCloseDone
    \/ SvcRecv
    \/ SvcHandle
    \/ pushCheck /\ UNCHANGED clientVars
    \/ pushSelect /\ UNCHANGED clientVars
    \/ deliver /\ UNCHANGED clientVars
    \/ AcceptStart /\ UNCHANGED clientVars
    \/ AcceptWait /\ UNCHANGED clientVars
    \/ AppClose /\ UNCHANGED clientVars

SpecShutdown == InitClose /\ [][NextShutdown]_vars

\* ------------------------------------------------------------------------
\* The receive loop and the rendezvous client: Recv failing, the client
\* cleared and closed, retryDERPConnect, next to Service.Close and to the
\* sendDERPSignal of the sessions' conns.  Clients are numbered in the order
\* connectDERP creates them; svc.client says whether s.derpClient is set and
\* derp.current which client it is.
\* ------------------------------------------------------------------------
\* a sendSignal closure that captured the client of the time of the dialInit
sendClient_Captured(isSet, current, captured) == captured

\* the client sendDERPSignal sends through: s.derpClient as it is at the
\* time of the send, 0 standing for "derp client unavailable"
sendClient(isSet, current, captured) == IF isSet THEN current ELSE 0

loopUnchanged ==
    UNCHANGED <<sessions, nConns, connVars, connCh, lclosed, rl, acc, held, pushed, now,
                nextSid, nData, panicked, streamVars, dial, rcClose, call>>

LoopStep(pc) ==
    /\ ~panicked
    /\ derp.pc = pc
    /\ sent' = EmptyBag
    /\ last' = [op |-> "loop", at |-> pc]
    /\ loopUnchanged

\* the select on s.closed at the top of the loop
LoopTop ==
    /\ LoopStep("top")
    /\ derp' = [derp EXCEPT !.pc = IF svc.closed THEN "exited" ELSE "client"]
    /\ UNCHANGED svc

\* the read of s.derpClient under derpMu
LoopClient ==
    /\ LoopStep("client")
    /\ derp' = [derp EXCEPT !.pc = IF svc.client = "nil" THEN "retry" ELSE "recv",
                            !.mine = IF svc.client = "nil" THEN 0 ELSE derp.current]
    /\ UNCHANGED svc

\* client.Recv returns a packet, which the loop handles
LoopRecvPacket ==
    \E key \in CloseKeys :
        /\ derp.pc = "recv"
        /\ derp.mine \notin derp.shut
        /\ derp.recvs < MaxRecvs
        /\ \/ /\ key \in DOMAIN sessions \/ nConns < MaxCloseConns
              /\ handleDialInit(key)
           \/ routeRelayClose(key)
        /\ derp' = [derp EXCEPT !.pc = "top", !.recvs = @ + 1,
                                !.born = IF key \in DOMAIN sessions' \ DOMAIN sessions
                                         THEN MapPut(@, key, derp.mine) ELSE @]
        /\ UNCHANGED <<nextSid, nData, streamVars, dial, svc, rcClose, call>>

\* client.Recv returns an error: the client was closed, or the link failed
LoopRecvError ==
    /\ LoopStep("recv")
    /\ derp.mine \in derp.shut \/ derp.recvFails < MaxRecvFails
    /\ derp' = [derp EXCEPT !.pc = "failed",
                            !.recvFails = IF derp.mine \in derp.shut THEN @ ELSE @ + 1]
    /\ UNCHANGED svc

\* the select on s.closed after the error
LoopFailed ==
    /\ LoopStep("failed")
    /\ derp' = [derp EXCEPT !.pc = IF svc.closed THEN "exited" ELSE "clear"]
    /\ UNCHANGED svc

\* s.derpClient is cleared if it still is the failed client, and the failed
\* client closed
LoopClear ==
    /\ LoopStep("clear")
    /\ svc' = [svc EXCEPT !.client = IF @ = "open" /\ derp.current = derp.mine
                                     THEN "nil" ELSE @]
    /\ derp' = [derp EXCEPT !.pc = "top", !.shut = @ \cup {derp.mine}]

\* retryDERPConnect: the select on s.closed
LoopRetry ==
    /\ LoopStep("retry")
    /\ derp' = [derp EXCEPT !.pc = IF svc.closed THEN "exited" ELSE "connect"]
    /\ UNCHANGED svc

\* connectDERP: newDERPClient fails, or returns a client that replaces
\* s.derpClient, the replaced one being closed
LoopConnect ==
    /\ LoopStep("connect")
    /\ \/ /\ derp.fails < MaxConnectFails
          /\ derp' = [derp EXCEPT !.pc = "sleep", !.fails = @ + 1]
          /\ UNCHANGED svc
       \/ /\ derp.nClients < MaxClients
          /\ svc' = [svc EXCEPT !.client = "open"]
          /\ derp' = [derp EXCEPT !.pc = "top",
                                  !.nClients = @ + 1,
                                  !.current = derp.nClients + 1,
                                  !.shut = IF svc.client = "open"
                                           THEN @ \cup {derp.current} ELSE @]

\* time.Sleep(2 * time.Second) is over
LoopSleep ==
    /\ LoopStep("sleep")
    /\ derp' = [derp EXCEPT !.pc = "retry"]
    /\ UNCHANGED svc

\* the conn of a session calls its sendSignal
SessionSend ==
    \E key \in DOMAIN sessions :
        /\ ~panicked
        /\ sessions[key].conn \notin closedConns
        /\ derp.sends < MaxSends
        /\ derp' = [derp EXCEPT !.sends = @ + 1]
        /\ sent' = EmptyBag
        /\ last' = [op |-> "send", key |-> key, born |-> derp.born[key],
                    client |-> sendClient(svc.client = "open", derp.current,
                                          derp.born[key])]
        /\ UNCHANGED svc
        /\ loopUnchanged

NextReconn ==
    \/ LoopTop
    \/ LoopClient
    \/ LoopRecvPacket
    \/ LoopRecvError
    \/ LoopFailed
    \/ LoopClear
    \/ LoopRetry
    \/ LoopConnect
    \/ LoopSleep
    \/ SessionSend
    \/ svc.calls = 0 /\ SvcCloseCall
    \/ SvcCloseListener
    \/ SvcCloseClient
    \/ SvcCloseSwap
    \/ SvcCloseConns

LoopFairness ==
    /\ WF_vars(LoopTop)
    /\ WF_vars(LoopClient)
    /\ WF_vars(LoopFailed)
    /\ WF_vars(LoopClear)
    /\ WF_vars(LoopRetry)
    /\ WF_vars(LoopConnect)
    /\ WF_vars(LoopSleep)

SpecReconn == InitEmpty(1) /\ [][NextReconn]_vars /\ LoopFairness

\* ------------------------------------------------------------------------
\* One relayConn of an accepted session: Close called by several
\* goroutines, next to Read, pushIncoming and markRemoteClosed
\* ------------------------------------------------------------------------
TheConn == newRelayConn(StreamKey, 1)

connUnchanged ==
    UNCHANGED <<nConns, connCh, lclosed, rl, acc, held, pushed, now, nextSid, panicked,
                streamVars, dial, svc, call, derp>>

\* a goroutine calls Close: closeOnce.Do, and for the caller that runs the
\* function, close(c.closed)
ConnCloseCall ==
    \E g \in Closers :
        LET do == onceDo(rcClose.once)
        IN  /\ rcClose.callers[g] = "idle"
            /\ rcClose.calls < MaxCloseCalls
            /\ rcClose' = [rcClose EXCEPT
                         !.calls = @ + 1,
                         !.once = IF do = "run" THEN "running" ELSE @,
                         !.closes = IF do = "run" THEN @ + 1 ELSE @,
                         !.callers[g] = IF do = "run" THEN "hook"
                                        ELSE IF do = "wait" THEN "waiting" ELSE "idle"]
            /\ closedConns' = IF do = "run" THEN closedConns \cup {TheConn} ELSE closedConns
            /\ sent' = EmptyBag
            /\ last' = [op |-> "connClose", conn |-> TheConn, did |-> do]
            /\ UNCHANGED <<sessions, remoteClosed, chanClosed, incoming, nData>>
            /\ connUnchanged

\* c.onClosed()
ConnCloseHook ==
    \E g \in Closers :
        /\ rcClose.callers[g] = "hook"
        /\ rcClose' = [rcClose EXCEPT !.callers[g] = "signal", !.hookRuns = @ + 1]
        /\ sessions' = MapDelete(sessions, {KeyOf(TheConn)})
        /\ sent' = EmptyBag
        /\ last' = [op |-> "connCloseHook", conn |-> TheConn]
        /\ UNCHANGED <<connVars, nData>>
        /\ connUnchanged

\* c.sendSignal(signalClose); the function of the Once has run
ConnCloseSignal ==
    \E g \in Closers :
        /\ rcClose.callers[g] = "signal"
        /\ rcClose' = [rcClose EXCEPT !.callers[g] = "idle", !.signals = @ + 1, !.once = "done"]
        /\ sent' = SetToBag({[type |-> "close", key |-> KeyOf(TheConn)]})
        /\ last' = [op |-> "connCloseSignal", conn |-> TheConn]
        /\ UNCHANGED <<sessions, connVars, nData>>
        /\ connUnchanged

\* a caller that waited for the Once returns when the function has run
ConnCloseWaited ==
    \E g \in Closers :
        /\ rcClose.callers[g] = "waiting"
        /\ rcClose.once = "done"
        /\ rcClose' = [rcClose EXCEPT !.callers[g] = "idle"]
        /\ sent' = EmptyBag
        /\ last' = [op |-> "connClose", conn |-> TheConn, did |-> "return"]
        /\ UNCHANGED <<sessions, connVars, nData>>
        /\ connUnchanged

\* the receive loop delivers the next payload: pushIncoming
ConnPush ==
    LET q == MapGet(incoming, TheConn, <<>>)
        r == pushIncoming(TheConn \in closedConns, TheConn \in chanClosed, Len(q))
    IN  /\ nData < MaxData
        /\ TheConn \notin remoteClosed
        /\ r # "blocked"
        /\ incoming' = IF r = "queued"
                       THEN MapPut(incoming, TheConn,
                                   Append(q, <<2 * nData + 1, 2 * nData + 2>>))
                       ELSE incoming
        /\ nData' = nData + 1
        /\ sent' = EmptyBag
        /\ last' = [op |-> "deliver", conn |-> TheConn, result |-> r]
        /\ UNCHANGED <<sessions, closedConns, remoteClosed, chanClosed, rcClose>>
        /\ connUnchanged

\* the receive loop got the peer's close: markRemoteClosed
ConnRemoteClose ==
    /\ TheConn \notin remoteClosed
    /\ remoteClosed' = markRemoteClosedFlag(remoteClosed, {TheConn})
    /\ chanClosed' = markRemoteClosedChan(remoteClosed, chanClosed, {TheConn})
    /\ sent' = EmptyBag
    /\ last' = [op |-> "markRemoteClosed", conn |-> TheConn]
    /\ UNCHANGED <<sessions, closedConns, incoming, nData, rcClose>>
    /\ connUnchanged

NextConn ==
    \/ ConnCloseCall
    \/ ConnCloseHook
    \/ ConnCloseSignal
    \/ ConnCloseWaited
    \/ ConnPush
    \/ ConnRemoteClose
    \/ ReadCall
    \/ ReadAgain
    \/ ReadSelect

\* the session of TheConn is accepted and Accept has returned the conn
InitConn ==
    /\ sessions = (StreamKey :> [newRelaySession(TheConn, 0) EXCEPT !.accepted = TRUE])
    /\ nConns = 1
    /\ nextSid = 1
    /\ held = {TheConn}
    /\ pushed = {TheConn}
    /\ InitRest

SpecConn == InitConn /\ [][NextConn]_vars

\* ------------------------------------------------------------------------
\* Tokens and destinations (token.go).  A string is the sequence of its
\* characters, a byte a number in 0..255.
\* ------------------------------------------------------------------------
\* the alphabet of base64.RawURLEncoding
Alphabet ==
    <<"A", "B", "C", "D", "E", "F", "G", "H", "I", "J", "K", "L", "M", "N", "O", "P",
      "Q", "R", "S", "T", "U", "V", "W", "X", "Y", "Z", "a", "b", "c", "d", "e", "f",
      "g", "h", "i", "j", "k", "l", "m", "n", "o", "p", "q", "r", "s", "t", "u", "v",
      "w", "x", "y", "z", "0", "1", "2", "3", "4", "5", "6", "7", "8", "9", "-", "_">>

\* the character of a 6-bit value, and the 6-bit value of a character
b64Char(v) == Alphabet[v + 1]

b64Value(c) == (CHOOSE i \in 1..64 : Alphabet[i] = c) - 1

IsB64Char(c) == \E i \in 1..64 : Alphabet[i] = c

\* base64.RawURLEncoding.EncodeToString: three bytes make four characters,
\* a rest of one or two bytes makes two or three, and there is no padding
b64Encode(bytes) ==
    LET RECURSIVE enc(_)
        enc(i) ==
            LET left == Len(bytes) - i + 1
                b1 == bytes[i]
                b2 == bytes[i + 1]
                b3 == bytes[i + 2]
            IN  IF left <= 0 THEN <<>>
                ELSE IF left = 1
                THEN <<b64Char(b1 \div 4), b64Char((b1 % 4) * 16)>>
                ELSE IF left = 2
                THEN <<b64Char(b1 \div 4), b64Char((b1 % 4) * 16 + b2 \div 16),
                       b64Char((b2 % 16) * 4)>>
                ELSE <<b64Char(b1 \div 4), b64Char((b1 % 4) * 16 + b2 \div 16),
                       b64Char((b2 % 16) * 4 + b3 \div 64), b64Char(b3 % 64)>>
                     \o enc(i + 3)
    IN  enc(1)

\* the characters base64 decoding skips
b64Skipped(c) == c \in {"\r", "\n"}

\* base64.RawURLEncoding.DecodeString: carriage returns and newlines are
\* skipped, every other character has to be of the alphabet, a rest of one
\* character is an error, and the bits left over in a rest are dropped
b64Decode(str) ==
    LET cs == SelectSeq(str, LAMBDA c : ~b64Skipped(c))
        v(i) == b64Value(cs[i])
        RECURSIVE dec(_)
        dec(i) ==
            LET left == Len(cs) - i + 1
            IN  IF left <= 0 THEN <<>>
                ELSE IF left = 2
                THEN <<v(i) * 4 + v(i + 1) \div 16>>
                ELSE IF left = 3
                THEN <<v(i) * 4 + v(i + 1) \div 16,
                       (v(i + 1) % 16) * 16 + v(i + 2) \div 4>>
                ELSE <<v(i) * 4 + v(i + 1) \div 16,
                       (v(i + 1) % 16) * 16 + v(i + 2) \div 4,
                       (v(i + 2) % 4) * 64 + v(i + 3)>>
                     \o dec(i + 4)
    IN  IF \E i \in 1..Len(cs) : ~IsB64Char(cs[i]) THEN [err |-> TRUE]
        ELSE IF Len(cs) % 4 = 1 THEN [err |-> TRUE]
        ELSE [err |-> FALSE, bytes |-> dec(1)]

\* strings.TrimSpace
IsSpace(c) == c \in {" ", "\t", "\n", "\r"}

TrimSpace(str) ==
    LET inner == {i \in 1..Len(str) : ~IsSpace(str[i])}
        lo == CHOOSE i \in inner : \A j \in inner : i <= j
        hi == CHOOSE i \in inner : \A j \in inner : j <= i
    IN  IF inner = {} THEN <<>> ELSE SubSeq(str, lo, hi)

\* binary.BigEndian.PutUint16 and binary.BigEndian.Uint16
putUint16_LittleEndian(n) == <<n % 256, n \div 256>>

putUint16(n) == <<n \div 256, n % 256>>

uint16(b) == b[1] * 256 + b[2]

ZeroKey == [i \in 1..keyLen |-> 0]

Validate_AnyVersion(t) == t.ServerDERPPublicKey # ZeroKey

\* Token.Validate
Validate(t) == t.Version = TokenVersionV1 /\ t.ServerDERPPublicKey # ZeroKey

\* Token.Encode
Encode(t) ==
    IF ~Validate(t) THEN [err |-> TRUE]
    ELSE [err |-> FALSE,
          str |-> b64Encode(<<t.Version>> \o t.ServerDERPPublicKey
                            \o putUint16(t.PreferredRegion))]

\* DecodeToken
DecodeToken(encoded) ==
    LET raw == b64Decode(TrimSpace(encoded))
        t == [Version |-> raw.bytes[1],
              ServerDERPPublicKey |-> SubSeq(raw.bytes, 2, 1 + keyLen),
              PreferredRegion |-> uint16(SubSeq(raw.bytes, 2 + keyLen, 3 + keyLen))]
    IN  IF raw.err THEN [err |-> TRUE]
        ELSE IF Len(raw.bytes) # tokenLen THEN [err |-> TRUE]
        ELSE IF ~Validate(t) THEN [err |-> TRUE]
        ELSE [err |-> FALSE, token |-> t]

DestinationPrefix == <<"t", "s", ":", "/", "/">>

HasPrefix(str, p) == Len(str) >= Len(p) /\ SubSeq(str, 1, Len(p)) = p

\* strings.ContainsAny(tokenRaw, "/?#")
ContainsAny(str, chars) == \E i \in 1..Len(str) : str[i] \in chars

\* ParseDestination
ParseDestination(destination) ==
    LET d == TrimSpace(destination)
        tokenRaw == TrimSpace(SubSeq(d, Len(DestinationPrefix) + 1, Len(d)))
    IN  IF ~HasPrefix(d, DestinationPrefix) THEN [err |-> TRUE]
        ELSE IF tokenRaw = <<>> THEN [err |-> TRUE]
        ELSE IF ContainsAny(tokenRaw, {"/", "?", "#"}) THEN [err |-> TRUE]
        ELSE DecodeToken(tokenRaw)

\* the tokens and the strings the functions are called with: server keys
\* of all zero, all 255, distinct bytes and a single non-zero byte, the
\* versions around 1, regions at the edges of a byte and of uint16
TokenKeys ==
    {ZeroKey, [i \in 1..keyLen |-> 255], [i \in 1..keyLen |-> (i * 37) % 256],
     [i \in 1..keyLen |-> IF i = keyLen THEN 1 ELSE 0]}

TokenInputs ==
    [Version : {0, 1, 2}, ServerDERPPublicKey : TokenKeys,
     PreferredRegion : {0, 1, 255, 256, 4660, 65535}]

GoodToken ==
    [Version |-> TokenVersionV1, ServerDERPPublicKey |-> [i \in 1..keyLen |-> (i * 37) % 256],
     PreferredRegion |-> 4660]

TokenBytes(t) == <<t.Version>> \o t.ServerDERPPublicKey \o putUint16(t.PreferredRegion)

\* payloads, each with what is wrong with it ("ok" when nothing is)
PayloadInputs ==
    LET good == b64Encode(TokenBytes(GoodToken))
        bytes == TokenBytes(GoodToken)
    IN  {[why |-> "ok", str |-> good],
         [why |-> "ok", str |-> <<" ">> \o good \o <<" ", "\n">>],
         [why |-> "ok", str |-> SubSeq(good, 1, 8) \o <<"\n">> \o SubSeq(good, 9, Len(good))],
         [why |-> "empty", str |-> <<>>],
         [why |-> "empty", str |-> <<" ">>],
         [why |-> "opaque", str |-> good \o <<"/">>],
         [why |-> "opaque", str |-> good \o <<"?", "x">>],
         [why |-> "opaque", str |-> <<"#">> \o good],
         [why |-> "length", str |-> b64Encode(SubSeq(bytes, 1, tokenLen - 1))],
         [why |-> "length", str |-> b64Encode(bytes \o <<0>>)],
         [why |-> "length", str |-> b64Encode(<<1>>)],
         [why |-> "length", str |-> good \o <<"=">>],
         [why |-> "length", str |-> <<"+">> \o Tail(good)],
         [why |-> "length", str |-> SubSeq(good, 1, 45)],
         [why |-> "version", str |-> b64Encode(TokenBytes([GoodToken EXCEPT !.Version = 2]))],
         [why |-> "version", str |-> b64Encode(TokenBytes([GoodToken EXCEPT !.Version = 0]))],
         [why |-> "key", str |-> b64Encode(TokenBytes([GoodToken EXCEPT
                                                !.ServerDERPPublicKey = ZeroKey]))]}

\* destinations: each payload behind the prefix, behind the prefix and
\* white space, without a prefix, and behind other prefixes
DestinationInputs ==
    {[why |-> p.why, str |-> DestinationPrefix \o p.str] : p \in PayloadInputs}
    \cup {[why |-> p.why, str |-> <<" ">> \o DestinationPrefix \o p.str \o <<"\n">>] :
            p \in PayloadInputs}
    \cup {[why |-> "prefix", str |-> p.str] : p \in PayloadInputs}
    \cup {[why |-> "prefix", str |-> <<"T", "S", ":", "/", "/">> \o p.str] :
            p \in PayloadInputs}
    \cup {[why |-> "prefix", str |-> <<"t", "s", ":", "/">> \o p.str] : p \in PayloadInputs}

callUnchanged == UNCHANGED <<svcVars, streamVars, dial, svc, rcClose, derp>>

\* t.Encode()
CallEncode ==
    /\ call.op = "token"
    /\ call.pc = "new"
    /\ call' = [op |-> "token", pc |-> "encoded", t |-> call.t, enc |-> Encode(call.t)]
    /\ callUnchanged

\* DecodeToken of what Encode returned
CallDecode ==
    /\ call.op = "token"
    /\ call.pc = "encoded"
    /\ ~call.enc.err
    /\ call' = [op |-> "token", pc |-> "decoded", t |-> call.t, enc |-> call.enc,
                out |-> DecodeToken(call.enc.str)]
    /\ callUnchanged

\* DecodeToken of a payload
CallDecodePayload ==
    /\ call.op = "payload"
    /\ call.pc = "new"
    /\ call' = [op |-> "payload", pc |-> "decoded", in |-> call.in,
                out |-> DecodeToken(call.in.str)]
    /\ callUnchanged

\* ParseDestination of a destination
CallParse ==
    /\ call.op = "destination"
    /\ call.pc = "new"
    /\ call' = [op |-> "destination", pc |-> "parsed", in |-> call.in,
                out |-> ParseDestination(call.in.str)]
    /\ callUnchanged

NextToken ==
    \/ CallEncode
    \/ CallDecode
    \/ CallDecodePayload
    \/ CallParse

InitToken ==
    /\ sessions = <<>>
    /\ nConns = 0
    /\ nextSid = 1
    /\ held = {}
    /\ pushed = {}
    /\ InitSys
    /\ call \in {[op |-> "token", pc |-> "new", t |-> t] : t \in TokenInputs}
            \cup {[op |-> "payload", pc |-> "new", in |-> p] : p \in PayloadInputs}
            \cup {[op |-> "destination", pc |-> "new", in |-> d] : d \in DestinationInputs}

SpecToken == InitToken /\ [][NextToken]_vars

\* ------------------------------------------------------------------------
\* relayConn.Write.  A buffer is given by its length, a chunk by the slice
\* b[lo:hi] it copies; fail is the number of the sendSignal call that returns
\* an error (0: none does), and a write deadline that is set passes once
\* `after` sends have returned.
\* ------------------------------------------------------------------------
\* a Write that does not look at c.remoteClosed
writeGate_IgnoresRemote(closed, remote) == IF closed THEN "closed" ELSE "ok"

\* the tests before the loop: the select on c.closed, then c.remoteClosed
writeGate(closed, remote) ==
    IF closed THEN "closed" ELSE IF remote THEN "EOF" ELSE "ok"

\* a loop that sends what is left in one chunk
chunkLimit_Unbounded(remaining) == remaining

\* limit, the length of the next chunk
chunkLimit(remaining) == IF remaining > maxChunk THEN maxChunk ELSE remaining

\* deadlineExceeded(deadline) after the given number of sends
deadlineExceeded(deadline, sends) == deadline.set /\ sends >= deadline.after

relayConnWrite(closed, remote, deadline, len, fail) ==
    LET RECURSIVE loop(_, _)
        loop(written, handed) ==
            IF written >= len
            THEN [n |-> written, err |-> "nil", handed |-> handed]
            ELSE LET limit == chunkLimit(len - written)
                     chunk == [lo |-> written, hi |-> written + limit]
                     sends == Len(handed) + 1
                 IN  IF sends = fail
                     THEN [n |-> written, err |-> "send", handed |-> Append(handed, chunk)]
                     ELSE IF deadlineExceeded(deadline, sends)
                          THEN [n |-> written + limit, err |-> "timeout",
                                handed |-> Append(handed, chunk)]
                          ELSE loop(written + limit, Append(handed, chunk))
        gate == writeGate(closed, remote)
    IN  IF gate # "ok" THEN [n |-> 0, err |-> gate, handed |-> <<>>]
        ELSE IF deadlineExceeded(deadline, 0)
             THEN [n |-> 0, err |-> "timeout", handed |-> <<>>]
             ELSE loop(0, <<>>)

WriteLens ==
    {0, 1, maxChunk - 1, maxChunk, maxChunk + 1, 2 * maxChunk, 2 * maxChunk + 1,
     MaxWriteChunks * maxChunk}

WriteDeadlines ==
    {[set |-> FALSE, after |-> 0]} \cup {[set |-> TRUE, after |-> k] : k \in 0..2}

WriteInputs ==
    [closed : BOOLEAN, remoteClosed : BOOLEAN, deadline : WriteDeadlines,
     len : WriteLens, fail : 0..MaxWriteChunks]

\* c.Write(b)
CallWrite ==
    /\ call.op = "write"
    /\ call.pc = "new"
    /\ call' = [op |-> "write", pc |-> "returned", in |-> call.in,
                out |-> relayConnWrite(call.in.closed, call.in.remoteClosed,
                                       call.in.deadline, call.in.len, call.in.fail)]
    /\ callUnchanged

NextWrite == CallWrite

InitWrite ==
    /\ sessions = <<>>
    /\ nConns = 0
    /\ nextSid = 1
    /\ held = {}
    /\ pushed = {}
    /\ InitSys
    /\ call \in {[op |-> "write", pc |-> "new", in |-> w] : w \in WriteInputs}

SpecWrite == InitWrite /\ [][NextWrite]_vars

\* ------------------------------------------------------------------------
\* The signal envelope.  A key is the name of its owner; the key that box
\* derives from a public and a private key is the same for both directions
\* of a pair.  A payload is given by its content and its length, the inner
\* message by its length, its length field and its fields, the nonce by the
\* counter that fills its first eight bytes.
\* ------------------------------------------------------------------------
sharedKey(publicKey, privateKey) == {publicKey, privateKey}

\* box.Seal
boxSeal(plain, nonce, publicKey, privateKey) ==
    [plain |-> plain, nonce |-> nonce, shared |-> sharedKey(publicKey, privateKey)]

\* box.Open
boxOpen(sealed, nonce, publicKey, privateKey) ==
    IF sealed.shared = sharedKey(publicKey, privateKey) /\ sealed.nonce = nonce
    THEN [ok |-> TRUE, plain |-> sealed.plain]
    ELSE [ok |-> FALSE, plain |-> sealed.plain]

\* an inner message that is not padded
innerPad_None(innerLen) == 0

innerPad(innerLen) ==
    LET pad == 16 - ((innerLen + 2) % 16)
    IN  IF pad = 16 THEN 0 ELSE pad

\* encodeSignalMessage, counter being what globalWGCounter.Add(1) returned
encodeSignalMessage(message, privateKey, publicKey, counter) ==
    LET innerLen == 1 + 16 + message.plen
        inner == [size |-> 2 + innerLen + innerPad(innerLen),
                  innerLen |-> innerLen % 65536,
                  type |-> message.type, sid |-> message.sid, payload |-> message.payload]
    IN  [len |-> 16 + inner.size + boxOverhead,
         prefix |-> <<4, 0, 0, 0>>,
         index |-> message.sid,
         counter |-> counter,
         box |-> boxSeal(inner, counter, publicKey, privateKey)]

decodeFailed(why) == [err |-> why, type |-> 0, sid |-> 0, payload |-> 0, plen |-> 0]

\* decodeSignalMessage
decodeSignalMessage(raw, privateKey, publicKey) ==
    LET opened == boxOpen(raw.box, raw.counter, publicKey, privateKey)
        inner == opened.plain
    IN  IF raw.len = 0 THEN decodeFailed("empty signal message")
        ELSE IF raw.len < 51 THEN decodeFailed("signal message too short")
        ELSE IF raw.prefix # <<4, 0, 0, 0>> THEN decodeFailed("invalid signal message type")
        ELSE IF ~opened.ok THEN decodeFailed("signal message decryption failed")
        ELSE IF inner.size < 19 THEN decodeFailed("signal inner message too short")
        ELSE IF inner.innerLen < 17 \/ 2 + inner.innerLen > inner.size
             THEN decodeFailed("invalid signal inner length")
             ELSE [err |-> "nil", type |-> inner.type, sid |-> inner.sid,
                   payload |-> inner.payload, plen |-> inner.innerLen - 17]

\* a switch with a default branch that treats the message as a close
handlerOf_DefaultClose(type) ==
    IF type = signalDialInit THEN "dialInit"
    ELSE IF type = signalData THEN "data" ELSE "close"

\* the switch of recvDERPLoop on message.Type
handlerOf(type) ==
    IF type = signalDialInit THEN "dialInit"
    ELSE IF type = signalData THEN "data"
    ELSE IF type = signalClose THEN "close" ELSE "none"

\* the packets the loop is given: well-formed envelopes of a peer for the
\* server, of every type, and envelopes that are damaged in one way
GoodKinds == {"dialInit", "data", "close"}

UnknownKinds == {"dialAck", "type0", "type5"}

BadKinds ==
    {"empty", "short", "prefix", "otherRecipient", "otherSender", "counter", "forged",
     "innerLen16", "innerLenBig"}

typeOfKind(kind) ==
    CASE kind = "dialInit" -> signalDialInit
      [] kind = "dialAck" -> signalDialAck
      [] kind = "close" -> signalClose
      [] kind = "type0" -> 0
      [] kind = "type5" -> 5
      [] OTHER -> signalData

packetOf(kind, key, payload, counter) ==
    LET message == [type |-> typeOfKind(kind), sid |-> key[2], payload |-> payload,
                    plen |-> 1]
        raw == encodeSignalMessage(message, key[1], ServerKey, counter)
        garbage == [plain |-> raw.box.plain, nonce |-> counter, shared |-> {}]
    IN  CASE kind = "empty" -> [raw EXCEPT !.len = 0, !.box = garbage]
          [] kind = "short" -> [raw EXCEPT !.len = 50, !.box = garbage]
          [] kind = "prefix" -> [raw EXCEPT !.prefix = <<1, 0, 0, 0>>]
          [] kind = "otherRecipient" ->
                 encodeSignalMessage(message, key[1], FloodPeer, counter)
          [] kind = "otherSender" ->
                 encodeSignalMessage(message, FloodPeer, ServerKey, counter)
          [] kind = "counter" -> [raw EXCEPT !.counter = @ + 1]
          [] kind = "forged" -> [raw EXCEPT !.box = garbage]
          [] kind = "innerLen16" -> [raw EXCEPT !.box.plain.innerLen = 16]
          [] kind = "innerLenBig" ->
                 [raw EXCEPT !.box.plain.innerLen = raw.box.plain.size - 1]
          [] OTHER -> raw

\* one round of recvDERPLoop after Recv returned the packet
RecvSignal ==
    \E key \in HotKeys, kind \in GoodKinds \cup UnknownKinds \cup BadKinds :
        LET m == decodeSignalMessage(packetOf(kind, key, nData + 1, nData + 1),
                                     ServerKey, key[1])
            to == IF m.err = "nil" THEN handlerOf(m.type) ELSE "none"
        IN  /\ rl.pc = "idle"
            /\ ~panicked
            /\ CASE to = "dialInit" ->
                        /\ key \in DOMAIN sessions \/ hotConns < MaxHotConns
                        /\ handleDialInit(<<key[1], m.sid>>)
                        /\ UNCHANGED <<nextSid, nData>>
                 [] to = "data" ->
                        /\ nData < MaxData
                        /\ routeRelayData(<<key[1], m.sid>>, m.payload)
                        /\ nData' = nData + 1
                        /\ UNCHANGED nextSid
                 [] to = "close" ->
                        /\ routeRelayClose(<<key[1], m.sid>>)
                        /\ UNCHANGED <<nextSid, nData>>
                 [] OTHER ->
                        /\ sent' = EmptyBag
                        /\ last' = [op |-> "dropped", kind |-> kind, err |-> m.err,
                                    key |-> key]
                        /\ UNCHANGED <<sessions, nConns, connVars, connCh, lclosed, rl, acc,
                                       held, pushed, now, nextSid, nData, panicked>>

NextDecode ==
    \/ RecvSignal /\ UNCHANGED clientVars
    \/ pushCheck /\ UNCHANGED clientVars
    \/ pushSelect /\ UNCHANGED clientVars
    \/ deliver /\ UNCHANGED clientVars
    \/ connListenerClose /\ UNCHANGED clientVars
    \/ AcceptStart /\ UNCHANGED clientVars
    \/ AcceptWait /\ UNCHANGED clientVars
    \/ AppClose /\ UNCHANGED clientVars

SpecDecode == Init /\ [][NextDecode]_vars

\* ------------------------------------------------------------------------
\* The counter of the envelopes.  globalWGCounter is a variable of the
\* package: a process starts with it at zero.  The server's key is derived
\* from the host key and is the same in every process of the server; the
\* client's key is drawn once per process.  call.out collects every envelope
\* sealed, with the process that sealed it.
\* ------------------------------------------------------------------------
Encoders == 1..MaxEncoders

SealPeers == {ServerKey, HotPeer}

\* the key of the boot-th process of a peer: DeriveDERPIdentity of the host
\* key on the server, getGlobalDERPIdentity on the client
processKey_Fresh(peer, boot) == <<peer, boot>>

processKey(peer, boot) == IF peer = ServerKey THEN <<peer, 0>> ELSE <<peer, boot>>

\* globalWGCounter.Add(1) of an encoder of a process
SealAdd ==
    \E p \in SealPeers, e \in Encoders, to \in SealPeers, sid \in 1..MaxSid + 1 :
        /\ call.op = "seal"
        /\ to # p
        /\ call.enc[p][e].pc = "idle"
        /\ call.counter[p] < MaxCounter
        /\ call' = [call EXCEPT
                       !.counter[p] = @ + 1,
                       !.enc[p][e] = [pc |-> "seal", counter |-> call.counter[p] + 1,
                                      to |-> to, sid |-> sid]]
        /\ callUnchanged

\* the rest of encodeSignalMessage: box.Seal under the nonce of the counter
SealBox ==
    \E p \in SealPeers, e \in Encoders :
        LET mine == call.enc[p][e]
            from == processKey(p, call.boot[p])
            to == processKey(mine.to, call.boot[mine.to])
            message == [type |-> signalDialAck, sid |-> mine.sid, payload |-> 0, plen |-> 0]
        IN  /\ call.op = "seal"
            /\ mine.pc = "seal"
            /\ call' = [call EXCEPT
                           !.enc[p][e] = [pc |-> "idle", counter |-> 0, to |-> ServerKey, sid |-> 0],
                           !.out = @ \cup {[from |-> from, to |-> to, boot |-> call.boot[p],
                                            raw |-> encodeSignalMessage(message, from, to,
                                                                        mine.counter)]}]
            /\ callUnchanged

\* the process of a peer ends and a new one starts
SealRestart ==
    \E p \in SealPeers :
        /\ call.op = "seal"
        /\ call.boot[p] < MaxBoots
        /\ call' = [call EXCEPT
                       !.boot[p] = @ + 1,
                       !.counter[p] = 0,
                       !.enc[p] = [e \in Encoders |->
                                      [pc |-> "idle", counter |-> 0, to |-> ServerKey, sid |-> 0]]]
        /\ callUnchanged

NextSeal ==
    \/ SealAdd
    \/ SealBox
    \/ SealRestart

InitSeal ==
    /\ sessions = <<>>
    /\ nConns = 0
    /\ nextSid = 1
    /\ held = {}
    /\ pushed = {}
    /\ InitSys
    /\ call = [op |-> "seal",
               boot |-> [p \in SealPeers |-> 1],
               counter |-> [p \in SealPeers |-> 0],
               enc |-> [p \in SealPeers |->
                           [e \in Encoders |->
                               [pc |-> "idle", counter |-> 0, to |-> ServerKey, sid |-> 0]]],
               out |-> {}]

SpecSeal == InitSeal /\ [][NextSeal]_vars

\* ------------------------------------------------------------------------
\* The size of the envelopes of one Write: the chunks of relayConn.Write,
\* each encoded and handed to derpClient.Send
\* ------------------------------------------------------------------------
\* the size test of derpClient.Send
sendTooLarge(len) == len > derpMaxSendSize

EnvelopeLens == (1..MaxEnvelopeLen) \cup ((maxChunk - 20)..(maxChunk + 20))
                    \cup {2 * maxChunk, 2 * maxChunk + 1}

\* c.Write(b) on an open conn: every chunk goes through encodeSignalMessage
\* and the size test of Send
CallEnvelopes ==
    /\ call.op = "envelopes"
    /\ call.pc = "new"
    /\ LET w == relayConnWrite(FALSE, FALSE, [set |-> FALSE, after |-> 0], call.len, 0)
           raws == [i \in 1..Len(w.handed) |->
                       encodeSignalMessage([type |-> signalData, sid |-> 1, payload |-> i,
                                            plen |-> w.handed[i].hi - w.handed[i].lo],
                                           ServerKey, HotPeer, i)]
       IN  call' = [op |-> "envelopes", pc |-> "sent", len |-> call.len,
                    chunks |-> w.handed,
                    raws |-> raws,
                    rejected |-> {i \in 1..Len(raws) : sendTooLarge(raws[i].len)}]
    /\ callUnchanged

NextEnvelopes == CallEnvelopes

InitEnvelopes ==
    /\ sessions = <<>>
    /\ nConns = 0
    /\ nextSid = 1
    /\ held = {}
    /\ pushed = {}
    /\ InitSys
    /\ call \in {[op |-> "envelopes", pc |-> "new", len |-> n] : n \in EnvelopeLens}

SpecEnvelopes == InitEnvelopes /\ [][NextEnvelopes]_vars

\* ------------------------------------------------------------------------
\* derpClient: the buffered writer of the link, Send, the periodic flusher
\* and Close, under a relayConn returned by Dial
\* ------------------------------------------------------------------------
\* the envelope of a message of the dialled session, as Dial's sendSignal
\* encodes it
linkEnvelope(type, plen, counter) ==
    encodeSignalMessage([type |-> type, sid |-> 1, payload |-> counter, plen |-> plen],
                        HotPeer, ServerKey, counter)

\* bufio.Writer.Flush: the buffered frames go to the connection; on a
\* closed connection the write fails and the writer keeps the error
bufioFlush(c) ==
    IF c.bwErr \/ c.buffered = 0 THEN c
    ELSE IF c.connClosed THEN [c EXCEPT !.bwErr = TRUE]
    ELSE [c EXCEPT !.wire = @ \cup c.buf, !.buf = {}, !.buffered = 0]

\* Send flushes at once: a payload of derpFlushNowSize or more, or a buffer
\* holding derpFlushThreshold or more
flushNow(len, buffered) == len >= derpFlushNowSize \/ buffered >= derpFlushThreshold

\* derpClient.Send of packet id with a payload of len bytes: the size test,
\* the frame written to the buffer under writeMu, the flush; .nil collects
\* the packets for which Send returned nil
derpClientSend(c, id, len) ==
    IF sendTooLarge(len) \/ c.bwErr THEN c
    ELSE LET w == [c EXCEPT !.buf = @ \cup {id},
                            !.buffered = @ + derpFrameHeaderLen + keyLen + len]
             f == bufioFlush(w)
         IN  IF flushNow(len, w.buffered)
             THEN IF f.bwErr THEN f ELSE [f EXCEPT !.nil = @ \cup {id}]
             ELSE [w EXCEPT !.nil = @ \cup {id}]

\* relayConn.Write on the conn: one chunk handed to sendSignal, by a Write
\* that found the conn open when it tested c.closed
LinkSend ==
    \E plen \in LinkPayloadLens :
        /\ call.op = "link"
        /\ call.n < MaxLinkSends
        /\ call' = [derpClientSend(call, call.n + 1,
                                   linkEnvelope(signalData, plen, call.n + 1).len)
                       EXCEPT !.n = @ + 1]
        /\ callUnchanged

\* flushLoop: a tick, and the flush under writeMu
LinkTick ==
    /\ call.op = "link"
    /\ call.flusher = "running"
    /\ call.buffered > 0
    /\ call' = bufioFlush(call)
    /\ callUnchanged

\* flushLoop: the select takes c.closed
LinkFlusherExit ==
    /\ call.op = "link"
    /\ call.flusher = "running"
    /\ call.closed
    /\ call' = [call EXCEPT !.flusher = "exited"]
    /\ callUnchanged

\* relayConn.Close: closeOnce.Do and close(c.closed); the on-closed hook
\* comes next
LinkConnClose ==
    /\ call.op = "link"
    /\ call.rc = "open"
    /\ call' = [call EXCEPT !.rc = "hook"]
    /\ callUnchanged

\* the hook, closeDERP: derpClient.Close, close(c.closed)
LinkCloseStart ==
    /\ call.op = "link"
    /\ call.rc = "hook"
    /\ call.pc = "open"
    /\ call' = [call EXCEPT !.pc = "flush", !.closed = TRUE]
    /\ callUnchanged

\* derpClient.Close: the flush of what is buffered, under writeMu
LinkCloseFlush ==
    /\ call.op = "link"
    /\ call.pc = "flush"
    /\ call' = [bufioFlush(call) EXCEPT !.pc = "conn"]
    /\ callUnchanged

\* derpClient.Close: conn.Close(); the hook returns
LinkCloseConn ==
    /\ call.op = "link"
    /\ call.pc = "conn"
    /\ call' = [call EXCEPT !.pc = "closed", !.connClosed = TRUE, !.rc = "signal"]
    /\ callUnchanged

\* relayConn.Close: sendSignal(signalClose), and Close returns
LinkCloseSignal ==
    /\ call.op = "link"
    /\ call.rc = "signal"
    /\ call' = [derpClientSend(call, CloseId, linkEnvelope(signalClose, 0, CloseId).len)
                   EXCEPT !.rc = "done"]
    /\ callUnchanged

NextLink ==
    \/ LinkSend
    \/ LinkTick
    \/ LinkFlusherExit
    \/ LinkConnClose
    \/ LinkCloseStart
    \/ LinkCloseFlush
    \/ LinkCloseConn
    \/ LinkCloseSignal

\* Dial has returned the conn: the link is open, the flusher runs, nothing
\* is buffered
InitLink ==
    /\ sessions = <<>>
    /\ nConns = 0
    /\ nextSid = 1
    /\ held = {}
    /\ pushed = {}
    /\ InitSys
    /\ call = [op |-> "link", n |-> 0, buf |-> {}, buffered |-> 0, wire |-> {},
               nil |-> {}, bwErr |-> FALSE, closed |-> FALSE, connClosed |-> FALSE,
               flusher |-> "running", pc |-> "open", rc |-> "open"]

\* the flusher's ticker fires every derpFlushInterval, and a Close that was
\* called runs to its end
LinkFairness ==
    /\ WF_vars(LinkTick)
    /\ WF_vars(LinkCloseStart)
    /\ WF_vars(LinkCloseFlush)
    /\ WF_vars(LinkCloseConn)
    /\ WF_vars(LinkCloseSignal)

SpecLink == InitLink /\ [][NextLink]_vars /\ LinkFairness

\* ------------------------------------------------------------------------
\* The session-table mutex: the statements of the handlers of the receive
\* loop, of the sweeper, of Service.Close and of the application's
\* conn.Close, in the order of the source, with sessionMu between them
\* ------------------------------------------------------------------------
MutexProcs == {"recv", "sweep", "closer", "app"}

\* a handler that holds the mutex to its end, as with a deferred Unlock
afterUnlock_Deferred(body, rest) == <<"lock">> \o body \o rest \o <<"unlock">>

\* the shape of every handler: Lock, the statements on the table, Unlock,
\* and then the statements that follow
afterUnlock(body, rest) == <<"lock">> \o body \o <<"unlock">> \o rest

\* relayConn.Close of a conn of the service: close(c.closed), the on-closed
\* hook of handleDialInit (Lock, delete, Unlock), sendSignal(signalClose)
connCloseSteps == <<"closeConn">> \o afterUnlock(<<"delete">>, <<>>) \o <<"send">>

\* markRemoteClosed and Close for each of n collected conns
closeEach(n) ==
    LET RECURSIVE each(_)
        each(k) == IF k = 0 THEN <<>>
                   ELSE <<"markRemoteClosed">> \o connCloseSteps \o each(k - 1)
    IN  each(n)

\* the statements of one run of a handler
handlerSteps(h) ==
    CASE h = "dialInitNew" -> afterUnlock(<<"lookup", "pending", "insert">>, <<"send">>)
      [] h = "dialInitFull" -> afterUnlock(<<"lookup", "pending">>, <<"send">>)
      [] h = "dialInitOld" -> afterUnlock(<<"lookup", "touch">>, <<"send">>)
      [] h = "dataUnknown" -> afterUnlock(<<"lookup">>, <<>>)
      [] h = "dataFirst" ->
            afterUnlock(<<"lookup", "touch", "accept">>, <<"push", "pushIncoming">>)
      [] h = "dataPushFailed" ->
            afterUnlock(<<"lookup", "touch", "accept">>, <<"push">> \o closeEach(1))
      [] h = "dataNext" -> afterUnlock(<<"lookup", "touch">>, <<"pushIncoming">>)
      [] h = "closeUnknown" -> afterUnlock(<<"lookup">>, <<>>)
      [] h = "closeAccepted" ->
            afterUnlock(<<"lookup", "delete">>, <<"markRemoteClosed">>)
      [] h = "closePending" -> afterUnlock(<<"lookup", "delete">>, closeEach(1))
      [] h = "pruneNone" -> afterUnlock(<<"collect">>, <<>>)
      [] h = "pruneStale" -> afterUnlock(<<"collect", "delete">>, closeEach(MaxCollected))
      [] h = "svcClose" ->
            <<"closeService", "listenerClose", "clientClose">>
                \o afterUnlock(<<"collect", "swap">>, closeEach(MaxCollected))
      [] h = "appClose" -> connCloseSteps

handlersOf(p) ==
    CASE p = "recv" -> {"dialInitNew", "dialInitFull", "dialInitOld", "dataUnknown",
                        "dataFirst", "dataPushFailed", "dataNext", "closeUnknown",
                        "closeAccepted", "closePending"}
      [] p = "sweep" -> {"pruneNone", "pruneStale"}
      [] p = "closer" -> {"svcClose"}
      [] p = "app" -> {"appClose"}

\* the statements that the claim wants run with the mutex released
ReleasedSteps == {"lock", "closeConn", "send", "push", "pushIncoming",
                  "markRemoteClosed", "listenerClose", "clientClose"}

\* a goroutine starts a handler: the receive loop and the sweeper while
\* s.closed is open, Service.Close once, the application at any time
MutexStart ==
    \E p \in MutexProcs : \E h \in handlersOf(p) :
        /\ call.op = "mutex"
        /\ call.prog[p] = <<>>
        /\ p \in {"recv", "sweep"} => ~call.closed
        /\ p = "closer" => ~call.closed
        /\ call' = [call EXCEPT !.prog[p] = handlerSteps(h), !.did = [by |-> p, what |-> h]]
        /\ callUnchanged

\* the goroutine p executes its next statement; Lock waits for the mutex
MutexStep(p) ==
    /\ call.op = "mutex"
    /\ call.prog[p] # <<>>
    /\ LET step == Head(call.prog[p])
       IN  /\ step = "lock" => call.mu = "free"
           /\ call' = [call EXCEPT
                          !.prog[p] = Tail(@),
                          !.mu = IF step = "lock" THEN p
                                 ELSE IF step = "unlock" THEN "free" ELSE @,
                          !.closed = @ \/ step = "closeService",
                          !.did = [by |-> p, what |-> step]]
    /\ callUnchanged

NextMutex ==
    \/ MutexStart
    \/ \E p \in MutexProcs : MutexStep(p)

InitMutex ==
    /\ sessions = <<>>
    /\ nConns = 0
    /\ nextSid = 1
    /\ held = {}
    /\ pushed = {}
    /\ InitSys
    /\ call = [op |-> "mutex", mu |-> "free", prog |-> [p \in MutexProcs |-> <<>>],
               closed |-> FALSE, did |-> [by |-> "none", what |-> "none"]]

\* a goroutine that holds the mutex runs: the statements between Lock and
\* Unlock do not block
MutexFairness == \A p \in MutexProcs : WF_vars(call.mu = p /\ MutexStep(p))

SpecMutex == InitMutex /\ [][NextMutex]_vars /\ MutexFairness

\* ------------------------------------------------------------------------
\* derpClient.Recv.  A frame on the wire is its header (type, length) and
\* the bytes that follow it before the stream ends; a payload is given by its
\* length and its first bytes (at most HeadLen of them, the rest is not looked
\* at by Recv).
\* ------------------------------------------------------------------------
headOf(seed, len) == [i \in 1..Min(len, HeadLen) |-> (seed + i) % 256]

frameOf(typ, length, avail, seed) ==
    [header |-> "ok", typ |-> typ, length |-> length,
     payload |-> [len |-> avail, head |-> headOf(seed, avail)]]

\* readDERPFrameHeader
readDERPFrameHeader(frame) ==
    IF frame.header = "ok"
    THEN [err |-> "nil", typ |-> frame.typ, length |-> frame.length]
    ELSE [err |-> "read", typ |-> 0, length |-> 0]

\* readDERPFramePayload
readDERPFramePayload(frame, length) ==
    IF length > derpMaxFrameSize THEN [err |-> "derp frame too large", payload |-> <<>>]
    ELSE IF length = 0 THEN [err |-> "nil", payload |-> [len |-> 0, head |-> <<>>]]
    ELSE IF frame.payload.len < length THEN [err |-> "read", payload |-> <<>>]
    ELSE [err |-> "nil", payload |-> frame.payload]

\* a pong that carries the whole payload of the ping
pongPayload_Whole(payload) == payload.head

\* payload[:8]
pongPayload(payload) == SubSeq(payload.head, 1, 8)

\* payload[:32] and payload[32:]
derpPacket(payload) ==
    [Source |-> SubSeq(payload.head, 1, 32),
     Payload |-> [len |-> payload.len - 32,
                  head |-> SubSeq(payload.head, 33, Len(payload.head))]]

\* one round of the loop of Recv
recvFrame(frame) ==
    LET h == readDERPFrameHeader(frame)
        p == readDERPFramePayload(frame, h.length)
    IN  IF h.err # "nil" THEN [do |-> "error", err |-> h.err]
        ELSE IF p.err # "nil" THEN [do |-> "error", err |-> p.err]
        ELSE IF h.typ = derpFrameRecvPacket
             THEN IF p.payload.len < 32 THEN [do |-> "continue"]
                  ELSE [do |-> "return", packet |-> derpPacket(p.payload)]
        ELSE IF h.typ = derpFramePing
             THEN IF p.payload.len < 8 THEN [do |-> "continue"]
                  ELSE [do |-> "sendPong", pong |-> pongPayload(p.payload)]
        ELSE [do |-> "continue"]

FrameInputs ==
    {frameOf(derpFrameRecvPacket, 40, 40, 1),
     frameOf(derpFrameRecvPacket, 32, 32, 2),
     frameOf(derpFrameRecvPacket, 31, 31, 3),
     frameOf(derpFrameRecvPacket, 0, 0, 4),
     frameOf(derpFramePing, 8, 8, 5),
     frameOf(derpFramePing, 12, 12, 6),
     frameOf(derpFramePing, 7, 7, 7),
     frameOf(derpFrameKeepAlive, 0, 0, 8),
     frameOf(derpFrameServerInfo, 40, 40, 9),
     frameOf(derpFramePong, 8, 8, 10),
     frameOf(derpFrameRecvPacket, derpMaxFrameSize, derpMaxFrameSize, 11),
     frameOf(derpFrameRecvPacket, derpMaxFrameSize + 1, derpMaxFrameSize + 1, 12),
     frameOf(derpFramePing, derpMaxFrameSize + 1, derpMaxFrameSize + 1, 13),
     frameOf(derpFrameRecvPacket, 40, 10, 14),
     [header |-> "eof", typ |-> 0, length |-> 0, payload |-> [len |-> 0, head |-> <<>>]]}

WireInputs == UNION {[1..n -> FrameInputs] : n \in 1..MaxFrames}

\* Recv, called again after each packet it returned, reads the next frame
RecvFrame ==
    /\ call.op = "recv"
    /\ call.err = "nil"
    /\ call.wire # <<>>
    /\ LET r == recvFrame(Head(call.wire))
       IN  call' = [op |-> "recv",
                    wire |-> Tail(call.wire),
                    read |-> Append(call.read, Head(call.wire)),
                    returned |-> IF r.do = "return" THEN Append(call.returned, r.packet)
                                 ELSE call.returned,
                    pongs |-> IF r.do = "sendPong" THEN Append(call.pongs, r.pong)
                              ELSE call.pongs,
                    err |-> IF r.do = "error" THEN r.err ELSE "nil"]
    /\ callUnchanged

NextRecv == RecvFrame

InitRecv ==
    /\ sessions = <<>>
    /\ nConns = 0
    /\ nextSid = 1
    /\ held = {}
    /\ pushed = {}
    /\ InitSys
    /\ call \in {[op |-> "recv", wire |-> w, read |-> <<>>, returned |-> <<>>,
                  pongs |-> <<>>, err |-> "nil"] : w \in WireInputs}

SpecRecv == InitRecv /\ [][NextRecv]_vars

\* ------------------------------------------------------------------------
\* Selection of the rendezvous node.  A map is a function from its region
\* ids to the nodes of the region; a host name and a name are sequences of
\* characters.

\* the byte of a character of a host name or a name
byteOf(c) ==
    CASE c = " " -> 32
      [] c = "a" -> 97
      [] c = "b" -> 98
      [] c = "c" -> 99
      [] OTHER -> 120

\* s < t for strings
RECURSIVE stringLess(_, _)
stringLess(s, t) ==
    IF t = <<>> THEN FALSE
    ELSE IF s = <<>> THEN TRUE
    ELSE IF byteOf(Head(s)) # byteOf(Head(t)) THEN byteOf(Head(s)) < byteOf(Head(t))
    ELSE stringLess(Tail(s), Tail(t))

normaliseDERPNode_KeepsPort(node) ==
    IF TrimSpace(node.HostName) = <<>> THEN [ok |-> FALSE]
    ELSE [ok |-> TRUE, node |-> node]

\* normaliseDERPNode
normaliseDERPNode(node) ==
    IF TrimSpace(node.HostName) = <<>> THEN [ok |-> FALSE]
    ELSE [ok |-> TRUE,
          node |-> [node EXCEPT !.DERPPort = IF @ = 0 THEN defaultDERPPort ELSE @,
                                !.STUNPort = IF @ = 0 THEN defaultSTUNPort ELSE @]]

\* firstUsableNode of the server: the first node of the list that normalises
RECURSIVE firstUsableNode(_)
firstUsableNode(nodes) ==
    IF nodes = <<>> THEN [ok |-> FALSE]
    ELSE IF normaliseDERPNode(Head(nodes)).ok THEN normaliseDERPNode(Head(nodes))
    ELSE firstUsableNode(Tail(nodes))

\* sort.Ints over the keys of derpMap.Regions
RECURSIVE sortInts(_)
sortInts(S) ==
    IF S = {} THEN <<>>
    ELSE LET m == CHOOSE x \in S : \A y \in S : x <= y
         IN  <<m>> \o sortInts(S \ {m})

\* orderedRegionIDs(derpMap)
orderedRegionIDs(derpMap) == sortInts(DOMAIN derpMap.Regions)

\* orderedRegionIDs(derpMap, preferredRegion): the preferred region first
\* when the map has it, then the other region ids in ascending order
orderedRegionIDsPreferred(derpMap, preferredRegion) ==
    IF preferredRegion \in DOMAIN derpMap.Regions
    THEN <<preferredRegion>> \o sortInts(DOMAIN derpMap.Regions \ {preferredRegion})
    ELSE sortInts(DOMAIN derpMap.Regions)

\* the loop of orderedDERPRegionCandidates over tryRegions
RECURSIVE regionCandidates(_, _)
regionCandidates(derpMap, tryRegions) ==
    IF tryRegions = <<>> THEN <<>>
    ELSE LET regionID == Head(tryRegions)
             first == firstUsableNode(derpMap.Regions[regionID].Nodes)
             rest == regionCandidates(derpMap, Tail(tryRegions))
         IN  IF first.ok THEN <<[regionID |-> regionID, node |-> first.node]>> \o rest
             ELSE rest

\* orderedDERPRegionCandidates
orderedDERPRegionCandidates(derpMap, preferredRegion) ==
    IF DOMAIN derpMap.Regions = {} THEN [err |-> TRUE]
    ELSE LET candidates ==
                 regionCandidates(derpMap, orderedRegionIDsPreferred(derpMap, preferredRegion))
         IN  IF candidates = <<>> THEN [err |-> TRUE]
             ELSE [err |-> FALSE, candidates |-> candidates]

\* pickDERPNode
pickDERPNode(derpMap, preferredRegion) ==
    LET c == orderedDERPRegionCandidates(derpMap, preferredRegion)
    IN  IF c.err THEN [err |-> TRUE]
        ELSE [err |-> FALSE, regionID |-> c.candidates[1].regionID,
              node |-> c.candidates[1].node]

\* pickDERPNodeForClient
pickDERPNodeForClient(derpMap, preferredRegion) == pickDERPNode(derpMap, preferredRegion)

\* normaliseDERPNode of the nearest-node selection
normaliseDERPNodeNearest(node) ==
    IF TrimSpace(node.HostName) = <<>> THEN [ok |-> FALSE]
    ELSE [ok |-> TRUE,
          node |-> [node EXCEPT !.DERPPort = IF @ = 0 THEN defaultDERPPort ELSE @]]

\* the order of sort.Slice in firstUsableNode of the nearest-node selection
nodeLess(a, b) ==
    IF a.HostName # b.HostName THEN stringLess(a.HostName, b.HostName)
    ELSE IF a.DERPPort # b.DERPPort THEN a.DERPPort < b.DERPPort
    ELSE stringLess(a.Name, b.Name)

\* firstUsableNode of the nearest-node selection: the least usable node
firstUsableNodeNearest(nodes) ==
    LET usable == {normaliseDERPNodeNearest(nodes[i]).node :
                     i \in {j \in 1..Len(nodes) : normaliseDERPNodeNearest(nodes[j]).ok}}
    IN  IF usable = {} THEN [ok |-> FALSE]
        ELSE [ok |-> TRUE, node |-> CHOOSE n \in usable : \A o \in usable : ~nodeLess(o, n)]

\* the loop of orderedDERPRegionCandidatesStable over tryRegions
RECURSIVE regionCandidatesStable(_, _)
regionCandidatesStable(derpMap, tryRegions) ==
    IF tryRegions = <<>> THEN <<>>
    ELSE LET regionID == Head(tryRegions)
             first == firstUsableNodeNearest(derpMap.Regions[regionID].Nodes)
             rest == regionCandidatesStable(derpMap, Tail(tryRegions))
         IN  IF first.ok
             THEN <<[regionID |-> regionID, node |-> first.node,
                     latency |-> unreachableDERPLatency]>> \o rest
             ELSE rest

\* orderedDERPRegionCandidatesStable
orderedDERPRegionCandidatesStable(derpMap) ==
    IF DOMAIN derpMap.Regions = {} THEN [err |-> TRUE]
    ELSE LET candidates == regionCandidatesStable(derpMap, orderedRegionIDs(derpMap))
         IN  IF candidates = <<>> THEN [err |-> TRUE]
             ELSE [err |-> FALSE, candidates |-> candidates]

\* the order of sort.SliceStable in rankDERPRegionCandidatesByLatency
candidateLess(a, b) ==
    IF a.latency = b.latency THEN a.regionID < b.regionID ELSE a.latency < b.latency

\* insertion of one candidate into a sorted list, after its equals
RECURSIVE insertCandidate(_, _)
insertCandidate(c, sorted) ==
    IF sorted = <<>> THEN <<c>>
    ELSE IF candidateLess(c, Head(sorted)) THEN <<c>> \o sorted
    ELSE <<Head(sorted)>> \o insertCandidate(c, Tail(sorted))

RECURSIVE sortCandidates(_)
sortCandidates(candidates) ==
    IF candidates = <<>> THEN <<>>
    ELSE insertCandidate(candidates[Len(candidates)],
                         sortCandidates(SubSeq(candidates, 1, Len(candidates) - 1)))

\* rankDERPRegionCandidatesByLatency, measured[regionID] being what
\* measureDERPNodeLatencyFunc returned for the node of the region
rankDERPRegionCandidatesByLatency(candidates, measured) ==
    IF Len(candidates) <= 1 THEN candidates
    ELSE sortCandidates([i \in 1..Len(candidates) |->
                           [candidates[i] EXCEPT !.latency = measured[candidates[i].regionID]]])

\* pickNearestDERPNode
pickNearestDERPNode(derpMap, measured) ==
    LET c == orderedDERPRegionCandidatesStable(derpMap)
        ranked == rankDERPRegionCandidatesByLatency(c.candidates, measured)
    IN  IF c.err THEN [err |-> TRUE]
        ELSE [err |-> FALSE, regionID |-> ranked[1].regionID, node |-> ranked[1].node]

\* the node selection of Dial
dialSelection(derpMap, preferredRegion, measured) == pickNearestDERPNode(derpMap, measured)

\* the maps and preferred regions the selections are called with
NodeA == [Name |-> <<"x">>, HostName |-> <<"a">>, DERPPort |-> 443, STUNPort |-> 3478]
NodeB == [Name |-> <<"y">>, HostName |-> <<"b">>, DERPPort |-> 0, STUNPort |-> 0]
NodeBlank == [Name |-> <<"x">>, HostName |-> <<" ">>, DERPPort |-> 443, STUNPort |-> 0]
NodeEmpty == [Name |-> <<"y">>, HostName |-> <<>>, DERPPort |-> 8443, STUNPort |-> 0]

NodeLists ==
    {<<>>, <<NodeA>>, <<NodeB, NodeA>>, <<NodeEmpty>>, <<NodeBlank, NodeB>>,
     <<NodeEmpty, NodeBlank>>}

RegionIDs == 1..MaxRegion

MapInputs ==
    UNION {[ids -> NodeLists] : ids \in SUBSET RegionIDs}

derpMapOf(regions) ==
    [Regions |-> [id \in DOMAIN regions |-> [RegionID |-> id, Nodes |-> regions[id]]]]

PreferredInputs == 0..(MaxRegion + 1)

Latencies == {1, 2, unreachableDERPLatency}

\* pickDERPNode, as Start calls it
CallPickDERPNode ==
    /\ call.op = "select"
    /\ "server" \notin DOMAIN call
    /\ call' = [x \in DOMAIN call \cup {"server"} |->
                  IF x = "server" THEN pickDERPNode(call.derpMap, call.preferredRegion)
                  ELSE call[x]]
    /\ callUnchanged

\* pickDERPNodeForClient
CallPickDERPNodeForClient ==
    /\ call.op = "select"
    /\ "client" \notin DOMAIN call
    /\ call' = [x \in DOMAIN call \cup {"client"} |->
                  IF x = "client" THEN pickDERPNodeForClient(call.derpMap, call.preferredRegion)
                  ELSE call[x]]
    /\ callUnchanged

\* the selection of Dial, with the token's region as the preferred region;
\* the latency probes return any latency
CallDialSelection ==
    /\ call.op = "select"
    /\ "server" \in DOMAIN call
    /\ "dial" \notin DOMAIN call
    /\ \E measured \in [DOMAIN call.derpMap.Regions -> Latencies] :
         call' = [x \in DOMAIN call \cup {"dial", "measured"} |->
                    IF x = "dial"
                    THEN dialSelection(call.derpMap,
                                       IF call.server.err THEN 0 ELSE call.server.regionID,
                                       measured)
                    ELSE IF x = "measured" THEN measured
                    ELSE call[x]]
    /\ callUnchanged

NextSelect ==
    \/ CallPickDERPNode
    \/ CallPickDERPNodeForClient
    \/ CallDialSelection

InitSelect ==
    /\ sessions = <<>>
    /\ nConns = 0
    /\ nextSid = 1
    /\ held = {}
    /\ pushed = {}
    /\ InitSys
    /\ call \in {[op |-> "select", derpMap |-> derpMapOf(m), preferredRegion |-> p] :
                   m \in MapInputs, p \in PreferredInputs}

SpecSelect == InitSelect /\ [][NextSelect]_vars

\* ------------------------------------------------------------------------
\* The probes of rankDERPRegionCandidatesByLatency: one goroutine per
\* candidate, the semaphore, the results channel and the WaitGroup.  The map
\* has one usable node in each of its regions 1..n, so candidate i is the one
\* of region i.
\* ------------------------------------------------------------------------
probeMap(n) == derpMapOf([id \in 1..n |-> <<NodeA>>])

\* a semaphore that never blocks
semFree_Unbounded(inFlight) == TRUE

\* sem <- struct{}{} can proceed
semFree(inFlight) == inFlight < derpLatencyProbeConcurrency

\* the candidates of the maps the ranking is called with
ProbeCandidates ==
    [n \in ProbeCounts |-> orderedDERPRegionCandidatesStable(probeMap(n)).candidates]

\* candidates[0] of the ranked list
selectedCandidate(ranked) ==
    [err |-> FALSE, regionID |-> ranked[1].regionID, node |-> ranked[1].node]

probesInFlight(g) == Cardinality({i \in DOMAIN g : g[i] = "probe"})

\* what the probe of candidate i of n may return: anything for the first
\* candidates and the last one, a failure for the others
probeLatencies(i, n) ==
    IF i < MaxProbeVaried \/ i = n THEN Latencies ELSE {unreachableDERPLatency}

\* pickNearestDERPNode is called and has its candidates; with more than one
\* the goroutines are started, with one it is returned as it is
ProbeStart ==
    /\ call.op = "probe"
    /\ call.pc = "called"
    /\ call' = IF call.n <= 1
               THEN [call EXCEPT !.pc = "returned",
                                 !.ranked = ProbeCandidates[call.n],
                                 !.out = selectedCandidate(ProbeCandidates[call.n])]
               ELSE [call EXCEPT !.pc = "waiting",
                                 !.ranked = ProbeCandidates[call.n],
                                 !.g = [i \in 1..call.n |-> "wait"]]
    /\ callUnchanged

\* a goroutine gets a slot of the semaphore
ProbeAcquire ==
    \E i \in DOMAIN call.g :
        /\ call.op = "probe"
        /\ call.g[i] = "wait"
        /\ semFree(probesInFlight(call.g))
        /\ call' = [call EXCEPT !.g[i] = "probe"]
        /\ callUnchanged

\* the probe returns; the goroutine gives the slot back, sends its result
\* (the channel has room for every result) and is done
ProbeDone ==
    \E i \in DOMAIN call.g :
        \E latency \in probeLatencies(i, call.n) :
            /\ call.op = "probe"
            /\ call.g[i] = "probe"
            /\ call' = [call EXCEPT !.g[i] = "done",
                                    !.results = @ \cup {[index |-> i, latency |-> latency]}]
            /\ callUnchanged

\* wg.Wait returns and the channel is closed
ProbeWaited ==
    /\ call.op = "probe"
    /\ call.pc = "waiting"
    /\ \A i \in DOMAIN call.g : call.g[i] = "done"
    /\ call' = [call EXCEPT !.pc = "closed"]
    /\ callUnchanged

\* the channel is drained, the candidates are sorted and
\* pickNearestDERPNode returns the first one
ProbeReturn ==
    /\ call.op = "probe"
    /\ call.pc = "closed"
    /\ LET measured == [i \in 1..call.n |->
                           IF \E r \in call.results : r.index = i
                           THEN (CHOOSE r \in call.results : r.index = i).latency
                           ELSE unreachableDERPLatency]
           ranked == rankDERPRegionCandidatesByLatency(call.ranked, measured)
       IN  call' = [call EXCEPT
                       !.pc = "returned",
                       !.results = {},
                       !.measured = measured,
                       !.ranked = ranked,
                       !.out = selectedCandidate(ranked)]
    /\ callUnchanged

NextProbe ==
    \/ ProbeStart
    \/ ProbeAcquire
    \/ ProbeDone
    \/ ProbeWaited
    \/ ProbeReturn

InitProbe ==
    /\ sessions = <<>>
    /\ nConns = 0
    /\ nextSid = 1
    /\ held = {}
    /\ pushed = {}
    /\ InitSys
    /\ call \in {[op |-> "probe", pc |-> "called", n |-> n, g |-> <<>>, results |-> {},
                  measured |-> <<>>, ranked |-> <<>>, out |-> [err |-> TRUE]]
                 : n \in ProbeCounts}

\* every goroutine that can take a step takes one; what follows wg.Wait is
\* sequential code
ProbeFairness ==
    /\ WF_vars(ProbeStart)
    /\ WF_vars(ProbeAcquire)
    /\ WF_vars(ProbeDone)
    /\ WF_vars(ProbeWaited)

SpecProbe == InitProbe /\ [][NextProbe]_vars /\ ProbeFairness

\* ------------------------------------------------------------------------
\* Start: the identity of the service, its listen address, its token, and
\* what a failed Start leaves behind.

RECURSIVE mixBytes(_, _)
mixBytes(bytes, sum) ==
    IF bytes = <<>> THEN sum
    ELSE mixBytes(Tail(bytes), (sum * 31 + Head(bytes) + 7) % 65521)

\* hkdf.New(sha256.New, secret, nil, derpKeyDerivationContext) read for 32
\* bytes: HKDF is stood for by a fixed mixing function of the secret, its
\* only varying input
hkdfSeed(secret) == [i \in 1..keyLen |-> (mixBytes(secret, Len(secret)) * i + i * i) % 256]

\* clampCurve25519Private: k[0] &= 248, k[31] &= 127, k[31] |= 64
clampCurve25519Private(k) ==
    IF Len(k) # keyLen THEN k
    ELSE [k EXCEPT ![1] = @ - (@ % 8),
                   ![keyLen] = IF (@ % 128) < 64 THEN (@ % 128) + 64 ELSE @ % 128]

\* curve25519.ScalarBaseMult: stood for by a fixed function of the private key
ScalarBaseMult(private) ==
    [i \in 1..keyLen |-> (private[i] * 3 + private[(i % keyLen) + 1] + 9) % 256]

\* DeriveDERPIdentity
DeriveDERPIdentity(hostPrivateKey) ==
    IF Len(hostPrivateKey) = 0 THEN [err |-> TRUE]
    ELSE LET private == clampCurve25519Private(hkdfSeed(hostPrivateKey))
         IN  [err |-> FALSE, private |-> private, public |-> ScalarBaseMult(private)]

\* randomDERPIdentity, random being the 32 bytes read from rand.Reader
randomDERPIdentity(random) ==
    LET private == clampCurve25519Private(random)
    IN  [err |-> FALSE, private |-> private, public |-> ScalarBaseMult(private)]

startIdentity_Random(hostPrivateKey, random) == randomDERPIdentity(random)

\* the identity Start gives the service
startIdentity(hostPrivateKey, random) == DeriveDERPIdentity(hostPrivateKey)

Digits == <<"0", "1", "2", "3", "4", "5", "6", "7", "8", "9">>

IsDigit(c) == \E i \in 1..10 : Digits[i] = c

digitOf(c) == (CHOOSE i \in 1..10 : Digits[i] = c) - 1

RECURSIVE digitsValue(_, _)
digitsValue(str, sum) ==
    IF str = <<>> THEN sum ELSE digitsValue(Tail(str), sum * 10 + digitOf(Head(str)))

\* strconv.Atoi
Atoi(str) ==
    LET signed == str # <<>> /\ Head(str) \in {"+", "-"}
        digits == IF signed THEN Tail(str) ELSE str
    IN  IF digits = <<>> \/ \E i \in 1..Len(digits) : ~IsDigit(digits[i]) THEN [err |-> TRUE]
        ELSE [err |-> FALSE,
              n |-> IF signed /\ Head(str) = "-" THEN 0 - digitsValue(digits, 0)
                    ELSE digitsValue(digits, 0)]

\* net.SplitHostPort of an address without brackets
SplitHostPort(addr) ==
    LET colons == {i \in 1..Len(addr) : addr[i] = ":"}
        colon == CHOOSE i \in colons : \A j \in colons : j <= i
    IN  IF colons = {} THEN [err |-> TRUE]
        ELSE IF Cardinality(colons) > 1 THEN [err |-> TRUE]
        ELSE [err |-> FALSE, host |-> SubSeq(addr, 1, colon - 1),
              port |-> SubSeq(addr, colon + 1, Len(addr))]

splitHostPort_AnyPort(addr) ==
    LET hp == SplitHostPort(TrimSpace(addr))
    IN  IF hp.err THEN [err |-> TRUE]
        ELSE IF Atoi(hp.port).err THEN [err |-> TRUE]
        ELSE [err |-> FALSE, host |-> hp.host, port |-> Atoi(hp.port).n]

\* splitHostPort
splitHostPort(addr) ==
    LET hp == SplitHostPort(TrimSpace(addr))
    IN  IF hp.err THEN [err |-> TRUE]
        ELSE IF Atoi(hp.port).err THEN [err |-> TRUE]
        ELSE IF Atoi(hp.port).n <= 0 \/ Atoi(hp.port).n > 65535 THEN [err |-> TRUE]
        ELSE [err |-> FALSE, host |-> hp.host, port |-> Atoi(hp.port).n]

\* what Start leaves behind and returns.  fetched is what FetchDERPMap
\* returned (a map, or an error), connected whether newDERPClient succeeded,
\* random what rand.Reader would return
Start(config, fetched, connected, random) ==
    LET in == [config |-> config, fetched |-> fetched, connected |-> connected]
        failed == [in |-> in, err |-> TRUE, listener |-> "none", client |-> "none",
                   loops |-> {}]
        identity == startIdentity(config.HostPrivateKey, random)
        listen == splitHostPort(config.ListenAddr.str)
        picked == pickDERPNode(fetched.derpMap, config.PreferredRegion)
        encoded == Encode([Version |-> TokenVersionV1,
                           ServerDERPPublicKey |-> identity.public,
                           PreferredRegion |-> picked.regionID % 65536])
    IN  IF Len(config.HostPrivateKey) = 0 THEN failed
        ELSE IF fetched.err THEN failed
        ELSE IF identity.err THEN failed
        ELSE IF listen.err THEN failed
        ELSE IF picked.err THEN failed
        ELSE IF encoded.err THEN failed
        ELSE IF ~connected
             THEN [failed EXCEPT !.listener = IF closeChCloses(FALSE) = 1 THEN "closed"
                                              ELSE "open"]
        ELSE [in |-> in, err |-> FALSE, listener |-> "open", client |-> "open",
              loops |-> {"recvDERPLoop", "cleanupPendingRelaySessionsLoop"},
              token |-> encoded.str, derpPrivate |-> identity.private,
              derpNode |-> picked.node, regionID |-> picked.regionID,
              port |-> listen.port]

\* the configurations Start is called with
HostKeys == {<<>>, <<1, 2, 3>>, <<3, 2, 1>>}

AddrInputs ==
    {[why |-> "ok", str |-> <<"h", ":", "2", "2">>],
     [why |-> "ok", str |-> <<" ", ":", "6", "5", "5", "3", "5", " ">>],
     [why |-> "bad", str |-> <<"h">>],
     [why |-> "bad", str |-> <<"h", ":">>],
     [why |-> "bad", str |-> <<"h", ":", "0">>],
     [why |-> "bad", str |-> <<"h", ":", "-", "1">>],
     [why |-> "bad", str |-> <<"h", ":", "6", "5", "5", "3", "6">>],
     [why |-> "bad", str |-> <<"h", ":", "2", "h">>],
     [why |-> "bad", str |-> <<"h", ":", "2", ":", "2">>]}

ConfigInputs ==
    [HostPrivateKey : HostKeys, ListenAddr : AddrInputs, PreferredRegion : {0, 2}]

FetchedInputs ==
    {[err |-> TRUE]}
    \cup {[err |-> FALSE, derpMap |-> derpMapOf(m)] :
            m \in {<<>>,
                   <<<<NodeEmpty>>, <<NodeBlank>>>>,
                   <<<<NodeA>>, <<NodeB, NodeA>>>>,
                   <<<<NodeB>>, <<NodeBlank>>, <<NodeA>>>>}}

RandomInputs == {[i \in 1..keyLen |-> 17], [i \in 1..keyLen |-> (i * 11) % 256]}

Running(r) == ~r.err /\ r.loops # {}

\* Start, the first time or after the service that ran was closed
StartCall ==
    /\ call.op = "start"
    /\ Len(call.runs) < MaxStarts
    /\ \A i \in 1..Len(call.runs) : ~call.runs[i].err /\ ~Running(call.runs[i])
    /\ \E config \in ConfigInputs, fetched \in FetchedInputs, connected \in BOOLEAN,
          random \in RandomInputs :
         call' = [call EXCEPT !.runs = Append(@, Start(config, fetched, connected, random))]
    /\ callUnchanged

\* Service.Close of the running service, and its two loops returning
StartedClose ==
    /\ call.op = "start"
    /\ call.runs # <<>>
    /\ Running(call.runs[Len(call.runs)])
    /\ call' = [call EXCEPT !.runs[Len(call.runs)] =
                  [@ EXCEPT !.listener = "closed", !.client = "closed", !.loops = {}]]
    /\ callUnchanged

\* Dial of the destination of the first service while the second runs:
\* the destination is parsed and the dialInit addressed to the token's key
DialOldDestination ==
    /\ call.op = "start"
    /\ Len(call.runs) = MaxStarts
    /\ ~call.runs[1].err
    /\ Running(call.runs[MaxStarts])
    /\ call.dialed = <<>>
    /\ call' = [call EXCEPT !.dialed =
                  <<ParseDestination(DestinationPrefix \o call.runs[1].token)>>]
    /\ callUnchanged

NextStart ==
    \/ StartCall
    \/ StartedClose
    \/ DialOldDestination

InitStart ==
    /\ sessions = <<>>
    /\ nConns = 0
    /\ nextSid = 1
    /\ held = {}
    /\ pushed = {}
    /\ InitSys
    /\ call = [op |-> "start", runs |-> <<>>, dialed |-> <<>>]

SpecStart == InitStart /\ [][NextStart]_vars

\* ------------------------------------------------------------------------
\* Properties of the session table
\* ------------------------------------------------------------------------
\* C2: in every reachable state at most maxPendingRelaySessions (256)
\* sessions of the table are not accepted.
C2_PendingAtMostCap ==
    pendingRelaySessionsLocked(sessions) <= maxPendingRelaySessions

\* the table is at the cap, and the dialInit just handled was turned away
C2_Witness ==
    /\ last.op = "dialInit"
    /\ last.outcome = "rejected"
    /\ pendingRelaySessionsLocked(sessions) = maxPendingRelaySessions
    /\ \E k \in HotKeys : k \in DOMAIN sessions

\* C3: from the empty table, after N > 256 dialInit messages of one peer
\* with pairwise distinct session ids the table holds exactly 256 sessions
\* (N = nextSid - 1 in SpecFlood).
C3_FloodCapsTable ==
    nextSid - 1 > maxPendingRelaySessions =>
        Cardinality(DOMAIN sessions) = maxPendingRelaySessions

C3_Witness ==
    /\ nextSid - 1 = MaxFlood
    /\ Cardinality(DOMAIN sessions) = maxPendingRelaySessions
    /\ last.op = "dialInit"
    /\ last.outcome = "rejected"

\* C4: one relayConn per live key: no two keys of the table share a conn,
\* a conn of the table was created for its key, and a step that leaves a key
\* in the table leaves it its conn; in particular a dialInit for a key of
\* the table creates no conn and only touches last_activity.
C4_ConnOfKey ==
    /\ \A k \in DOMAIN sessions :
          /\ KeyOf(sessions[k].conn) = k
          /\ sessions[k].conn[2] \in 1..nConns
    /\ \A k1, k2 \in DOMAIN sessions :
          k1 # k2 => sessions[k1].conn[2] # sessions[k2].conn[2]

C4_StepKeepsConn ==
    /\ \A k \in DOMAIN sessions \cap DOMAIN sessions' :
          sessions'[k].conn = sessions[k].conn
    /\ \A k \in DOMAIN sessions :
          (last'.op = "dialInit" /\ last'.key = k) =>
              /\ nConns' = nConns
              /\ sessions' = [sessions EXCEPT ![k].lastActivity = now]

C4_OneConnPerKey == [](C4_ConnOfKey) /\ [][C4_StepKeepsConn]_vars

\* a dialInit found its key in the table, with the session already accepted
C4_Witness ==
    /\ last.op = "dialInit"
    /\ last.outcome = "refreshed"
    /\ sessions[last.key].accepted
    /\ sessions[last.key].conn[2] < nConns

C7_AcceptAfterClose ==
    (last.op = "accept" /\ last.startClosed) =>
        /\ last.err = "closed"
        /\ held \cap Range(connCh) = {}

\* an Accept started on the closed listener returned while a conn was queued
C7_Witness ==
    /\ last.op = "accept"
    /\ last.startClosed
    /\ lclosed
    /\ connCh # <<>>

\* C8 as stated: a sweep removes exactly the sessions that are not accepted
\* and whose last_activity is older than 30 s.
C8_StaleOlder(m, t) ==
    {k \in DOMAIN m : ~m[k].accepted /\ m[k].lastActivity < t - pendingRelaySessionTTL}

C8_StaleNotAfter(m, t) ==
    {k \in DOMAIN m : ~m[k].accepted /\ m[k].lastActivity <= t - pendingRelaySessionTTL}

C8_SweepStep ==
    last'.op = "prune" =>
        /\ DOMAIN sessions \ DOMAIN sessions' = C8_StaleNotAfter(sessions, now)
        /\ DOMAIN sessions' \subseteq DOMAIN sessions
        /\ \A k \in DOMAIN sessions' : sessions'[k] = sessions[k]
        /\ \A k \in C8_StaleNotAfter(sessions, now) :
              /\ sessions[k].conn \in remoteClosed'
              /\ sessions[k].conn \in chanClosed'
              /\ sessions[k].conn \in closedConns'

C9_CloseStep ==
    last'.op = "close" =>
        LET k == last'.key IN
        IF k \in DOMAIN sessions
        THEN /\ k \notin DOMAIN sessions'
             /\ \A j \in DOMAIN sessions \ {k} :
                   j \in DOMAIN sessions' /\ sessions'[j] = sessions[j]
             /\ sessions[k].conn \in remoteClosed'
             /\ sessions[k].conn \in closedConns' <=> ~sessions[k].accepted
        ELSE UNCHANGED <<sessions, nConns, connVars, connCh, lclosed, held, pushed>>

C9_RouteClose == [][C9_CloseStep]_vars

\* a signalClose removed an accepted session and left its conn open
C9_Witness ==
    /\ last.op = "close"
    /\ last.found
    /\ last.accepted
    /\ last.key \notin DOMAIN sessions
    /\ last.conn \in remoteClosed
    /\ last.conn \notin closedConns

\* ------------------------------------------------------------------------
\* Properties of the byte stream of one session
\* ------------------------------------------------------------------------
IsPrefix(p, q) == Len(p) <= Len(q) /\ SubSeq(q, 1, Len(p)) = p

\* C1: with the link delivering the data envelopes in the order they were
\* sent, the bytes successive Reads have returned on the receiving conn
\* are, in order and with none lost or repeated, a prefix of the bytes the
\* peer has written, whatever the sizes of the Writes and of the Read
\* buffers.
C1_ReadsArePrefix ==
    \A c \in DOMAIN got : IsPrefix(got[c], wrote)

\* a Read has just returned part of a payload, after an earlier Read, and
\* left a residue in the read buffer
C1_Witness ==
    /\ last.op = "read"
    /\ last.result = "data"
    /\ Len(MapGet(got, last.conn, <<>>)) >= 2
    /\ MapGet(readBuf, last.conn, <<>>) # <<>>
    /\ Len(wrote) = MaxBytes

\* C6: Read never returns EOF while a payload delivered to the conn is
\* still unread: when a Read returns EOF, the incoming queue of its conn
\* and its read buffer are empty.
C6_NoEOFWhileUnread ==
    (last.op = "read" /\ last.result = "EOF") =>
        /\ MapGet(incoming, last.conn, <<>>) = <<>>
        /\ MapGet(readBuf, last.conn, <<>>) = <<>>

\* ------------------------------------------------------------------------
\* Properties of Dial
\* ------------------------------------------------------------------------
C10_DialOutcome ==
    /\ dial.result = "conn" => dial.ackArrived
    /\ dial.result = "error" => dial.derpClosed
    /\ (dial.pc = "wait" /\ ~dial.ackArrived) => now - dial.start <= 5
    /\ (dial.pc = "returned" /\ ~dial.ackArrived) =>
          /\ dial.result = "error"
          /\ dial.end - dial.start <= 5

C10_Waiting == dial.pc = "wait"

C10_Returned == dial.pc = "returned"

\* C10: Dial returns a conn only after a dialAck of its own session id has
\* arrived from the token's server key, whatever else arrives from other
\* keys or for other sessions; while no such ack has arrived Dial returns
\* within 5 s of sending its dialInit, with an error and the rendezvous
\* client closed; and a Dial that waits does return.
C10_Dial == [](C10_DialOutcome) /\ (C10_Waiting ~> C10_Returned)

\* Dial timed out, 5 s after its dialInit, having received a dialAck from
\* another key or for another session and none of its own
C10_Witness ==
    /\ dial.pc = "returned"
    /\ dial.result = "error"
    /\ dial.why = "timeout"
    /\ dial.foreignAck
    /\ ~dial.ackArrived
    /\ dial.derpClosed
    /\ dial.end - dial.start = 5

\* ------------------------------------------------------------------------
\* Properties of Service.Close
\* ------------------------------------------------------------------------
C11_Shut ==
    /\ svc.listenerShut <= 1
    /\ svc.clientShut <= 1
    /\ svc.once = "done" =>
          /\ lclosed
          /\ svc.client = "nil"
          /\ svc.clientShut = 1
          /\ svc.all \subseteq remoteClosed
          /\ svc.all \subseteq chanClosed
          /\ svc.all \subseteq closedConns
          /\ \A k \in DOMAIN sessions : sessions[k].conn \notin svc.all

C11_LaterCall ==
    (svc.once = "done" /\ svc'.calls # svc.calls) =>
        /\ svc'.once = "done"
        /\ svc' = [svc EXCEPT !.calls = svc'.calls]
        /\ UNCHANGED <<sessions, nConns, connVars, connCh, lclosed, rl, acc, held, pushed>>

\* C11: however often and from however many goroutines Service.Close is
\* called, the listener and the rendezvous client are each shut once; when
\* Close has run, every conn of a session that was in the table is marked
\* remote-closed and closed and no session of the table holds it; and a
\* call made after Close has run changes nothing.
C11_CloseOnce == [](C11_Shut) /\ [][C11_LaterCall]_vars

\* Close has run with two sessions in the table, one accepted and one not,
\* while another caller waited, and a later call has returned
C11_Witness ==
    /\ svc.once = "done"
    /\ svc.calls = MaxCloseCalls
    /\ \A c \in Closers : svc.callers[c] = "idle"
    /\ last.op = "svcClose"
    /\ last.did = "return"
    /\ Cardinality(svc.all) = 2
    /\ svc.all \cap pushed # {}
    /\ svc.all \ pushed # {}

\* ------------------------------------------------------------------------
\* Properties of relayConn.Close
\* ------------------------------------------------------------------------
\* C12: however many goroutines call Close on one relayConn, one after the
\* other or at once, its close channel is closed once, its on-closed hook
\* runs once and one signalClose is handed to sendSignal.
C12_ClosedOnce ==
    /\ rcClose.closes <= 1
    /\ rcClose.hookRuns <= 1
    /\ rcClose.signals <= 1
    /\ rcClose.hookRuns <= rcClose.closes
    /\ rcClose.signals <= rcClose.hookRuns
    /\ (rcClose.closes = 1) = (TheConn \in closedConns)
    /\ rcClose.once = "done" =>
          /\ rcClose.closes = 1
          /\ rcClose.hookRuns = 1
          /\ rcClose.signals = 1

\* three calls of two goroutines have returned, one of them made while
\* the first was running
C12_Witness ==
    /\ rcClose.once = "done"
    /\ rcClose.calls = MaxCloseCalls
    /\ \A g \in Closers : rcClose.callers[g] = "idle"
    /\ last.op = "connClose"
    /\ last.did = "return"
    /\ sessions = <<>>

C13_ClosedBeforeSignal == rcClose.signals > 0 => TheConn \in closedConns

C13_ReadStep ==
    (last'.op = "read" /\ readStartsClosed(TheConn) /\ TheConn \notin remoteClosed') =>
        last'.result = "closed"

\* C13: the conn is closed locally before its signalClose is sent, and a
\* Read that starts after the close channel was closed returns the closed
\* error and no data (looked at for a conn that is not remote-closed).
C13_ReadAfterClose == [](C13_ClosedBeforeSignal) /\ [][C13_ReadStep]_vars

\* ------------------------------------------------------------------------
\* Properties of connListener.Close
\* ------------------------------------------------------------------------
C14_CloseStep ==
    /\ lclosed => lclosed'
    /\ last'.op = "listenerClose" =>
          /\ lclosed'
          /\ UNCHANGED <<sessions, nConns, connVars, connCh, rl, acc, held, pushed, now,
                         nextSid, nData, panicked, clientVars>>
          /\ IF lclosed
             THEN last'.closes = 0 /\ last'.err = "closed"
             ELSE last'.closes = 1 /\ last'.err = "none"

\* C14: listener Close is idempotent: closeCh is closed by the first Close
\* and by no later one, a Close of a closed listener returns the closed
\* error and leaves the listener as it is, and the listener never reopens.
C14_ListenerCloseIdempotent == [][C14_CloseStep]_vars

\* a second Close has returned, with a conn in the accept queue
C14_Witness ==
    /\ last.op = "listenerClose"
    /\ last.err = "closed"
    /\ last.closes = 0
    /\ lclosed
    /\ connCh # <<>>


\* ------------------------------------------------------------------------
\* Properties of the token

C15_Valid ==
    /\ call.t.Version = 1
    /\ call.t.ServerDERPPublicKey # [i \in 1..keyLen |-> 0]
    /\ call.t.PreferredRegion \in 0..65535

\* C15: for every valid token t (version 1, a server key that is not all
\* zero, any preferred region 0..65535) Encode succeeds, and DecodeToken of
\* the string it returned succeeds with a token equal to t in version,
\* server public key and preferred region.
C15_RoundTrip ==
    /\ (call.op = "token" /\ call.pc \in {"encoded", "decoded"} /\ C15_Valid)
         => ~call.enc.err
    /\ (call.op = "token" /\ call.pc = "decoded" /\ C15_Valid)
         => /\ ~call.out.err
            /\ call.out.token.Version = call.t.Version
            /\ call.out.token.ServerDERPPublicKey = call.t.ServerDERPPublicKey
            /\ call.out.token.PreferredRegion = call.t.PreferredRegion

C15_Witness ==
    /\ call.op = "token"
    /\ call.pc = "decoded"
    /\ call.t.PreferredRegion = 4660
    /\ call.t.ServerDERPPublicKey[keyLen] = 1
    /\ call.out.token = call.t

\* C16: ParseDestination and DecodeToken return an error and no token for
\* every input without the ts:// prefix, with an empty payload, with '/',
\* '?' or '#' in the payload, with a payload that does not decode to exactly
\* 35 bytes, with a version other than 1 or with an all-zero server key;
\* Encode returns an error and no string for a token with a version other
\* than 1 or an all-zero key.
C16_Rejects ==
    /\ (call.op \in {"payload", "destination"} /\ call.pc \in {"decoded", "parsed"}
          /\ call.in.why # "ok")
         => call.out.err /\ "token" \notin DOMAIN call.out
    /\ (call.op = "token" /\ call.pc = "encoded"
          /\ (call.t.Version # 1 \/ call.t.ServerDERPPublicKey = [i \in 1..keyLen |-> 0]))
         => call.enc.err /\ "str" \notin DOMAIN call.enc

C16_Witness ==
    /\ call.op = "destination"
    /\ call.pc = "parsed"
    /\ call.in.why = "version"
    /\ call.in.str[1] = "t"
    /\ call.out.err


\* ------------------------------------------------------------------------
\* Properties of the node selection

\* C19: the client selects the region the server selected: whenever the
\* server-side selection returned a region for a map and a preferred
\* region, the selection Dial makes for the same map returns that region.
C19_ClientSelectsServerRegion ==
    (call.op = "select" /\ "dial" \in DOMAIN call /\ ~call.server.err)
      => ~call.dial.err /\ call.dial.regionID = call.server.regionID

C20_Usable(node) == node.HostName \notin {<<>>, <<" ">>}

C20_HasUsable(id) ==
    \E i \in 1..Len(call.derpMap.Regions[id].Nodes) :
      C20_Usable(call.derpMap.Regions[id].Nodes[i])

C20_FirstUsable(id) ==
    LET nodes == call.derpMap.Regions[id].Nodes
        i == CHOOSE j \in 1..Len(nodes) :
               C20_Usable(nodes[j]) /\ \A k \in 1..(j - 1) : ~C20_Usable(nodes[k])
    IN  nodes[i]

C20_Region ==
    LET ids == {id \in DOMAIN call.derpMap.Regions : C20_HasUsable(id)}
    IN  IF call.preferredRegion \in ids THEN call.preferredRegion
        ELSE CHOOSE id \in ids : \A o \in ids : id <= o

\* C20: pickDERPNode returns the first usable node (host name not empty, a
\* DERP port of 0 replaced by 443) of the preferred region when the map has
\* that region and it has a usable node, otherwise of the lowest-numbered
\* region with a usable node, and an error when the map is empty or has no
\* usable node.
C20_PickDERPNode ==
    (call.op = "select" /\ "server" \in DOMAIN call)
      => IF \E id \in DOMAIN call.derpMap.Regions : C20_HasUsable(id)
         THEN /\ ~call.server.err
              /\ call.server.regionID = C20_Region
              /\ call.server.node.HostName = C20_FirstUsable(C20_Region).HostName
              /\ call.server.node.Name = C20_FirstUsable(C20_Region).Name
              /\ call.server.node.DERPPort =
                   IF C20_FirstUsable(C20_Region).DERPPort = 0 THEN 443
                   ELSE C20_FirstUsable(C20_Region).DERPPort
         ELSE call.server.err /\ DOMAIN call.server = {"err"}

\* the preferred region has no usable node and neither has region 1: the
\* node is the second of region 3, its port 0 replaced
C20_Witness ==
    /\ call.op = "select"
    /\ "server" \in DOMAIN call
    /\ call.preferredRegion = 2
    /\ DOMAIN call.derpMap.Regions = {1, 2, 3}
    /\ ~C20_HasUsable(1)
    /\ ~C20_HasUsable(2)
    /\ call.derpMap.Regions[3].Nodes = <<NodeBlank, NodeB>>
    /\ ~call.server.err
    /\ call.server.regionID = 3
    /\ call.server.node.DERPPort = 443


\* ------------------------------------------------------------------------
\* Properties of Start

\* C17: the published token is a function of the host identity and the
\* selected region only: two Starts with the same host identity that
\* selected the same region publish the same token, whatever their listen
\* address, and so do two Starts with the same host identity, map and
\* preferred region; the destination of the first service, dialed after the
\* restart, parses and addresses the key the second service is connected
\* under.
C17_SameToken ==
    call.op = "start" =>
      /\ \A i, j \in 1..Len(call.runs) :
           (/\ ~call.runs[i].err
            /\ ~call.runs[j].err
            /\ call.runs[i].in.config.HostPrivateKey = call.runs[j].in.config.HostPrivateKey
            /\ \/ call.runs[i].regionID = call.runs[j].regionID
               \/ /\ call.runs[i].in.fetched = call.runs[j].in.fetched
                  /\ call.runs[i].in.config.PreferredRegion
                       = call.runs[j].in.config.PreferredRegion)
             => call.runs[i].token = call.runs[j].token
      /\ (/\ call.dialed # <<>>
          /\ call.runs[1].in.config.HostPrivateKey = call.runs[2].in.config.HostPrivateKey)
           => /\ ~call.dialed[1].err
              /\ call.dialed[1].token.ServerDERPPublicKey
                   = ScalarBaseMult(call.runs[2].derpPrivate)

C17_Witness ==
    /\ call.op = "start"
    /\ call.dialed # <<>>
    /\ call.runs[1].in.config.HostPrivateKey = call.runs[2].in.config.HostPrivateKey
    /\ call.runs[1].in.config.ListenAddr # call.runs[2].in.config.ListenAddr
    /\ call.runs[1].in.fetched # call.runs[2].in.fetched
    /\ call.runs[1].in.config.PreferredRegion # call.runs[2].in.config.PreferredRegion
    /\ call.runs[1].regionID = 1
    /\ call.runs[1].token = call.runs[2].token
    /\ ~call.dialed[1].err

\* C18: Start returns an error and no service when the host private key is
\* empty, when the map cannot be fetched, when the listen address or port is
\* invalid, or when the rendezvous connect fails; a Start that returned an
\* error left no receive loop and no sweeper running, no open rendezvous
\* client and no open listener.
C18_StartFails ==
    call.op = "start" =>
      \A i \in 1..Len(call.runs) :
        /\ (\/ call.runs[i].in.config.HostPrivateKey = <<>>
            \/ call.runs[i].in.fetched.err
            \/ call.runs[i].in.config.ListenAddr.why = "bad"
            \/ ~call.runs[i].in.connected)
             => call.runs[i].err /\ "token" \notin DOMAIN call.runs[i]
        /\ call.runs[i].err
             => /\ call.runs[i].loops = {}
                /\ call.runs[i].listener \in {"none", "closed"}
                /\ call.runs[i].client \in {"none", "closed"}

\* the connect failed after the listener was created: the listener is closed
C18_Witness ==
    /\ call.op = "start"
    /\ Len(call.runs) = 1
    /\ call.runs[1].err
    /\ ~call.runs[1].in.connected
    /\ call.runs[1].in.config.ListenAddr.why = "ok"
    /\ call.runs[1].listener = "closed"
    /\ call.runs[1].loops = {}


\* ------------------------------------------------------------------------
\* Properties of the receive loop's handlers

\* C22: for every dialInit the service handles: if its key is in the table
\* or a session is created for it, exactly one dialAck and nothing else is
\* handed to sendDERPSignal for the source; if the key is absent and 256
\* sessions are pending, no session and no conn is created, one signalClose
\* is handed over and no dialAck.
C22_Step ==
    last'.op = "dialInit" =>
      LET key == last'.key
          ack == [type |-> "dialAck", key |-> key]
          close == [type |-> "close", key |-> key]
          pending == Cardinality({k \in DOMAIN sessions : ~sessions[k].accepted})
      IN  IF key \in DOMAIN sessions \/ pending < 256
          THEN /\ key \in DOMAIN sessions'
               /\ DOMAIN sessions' = DOMAIN sessions \cup {key}
               /\ BagToSet(sent') = {ack}
               /\ CopiesIn(ack, sent') = 1
          ELSE /\ sessions' = sessions
               /\ nConns' = nConns
               /\ BagToSet(sent') = {close}
               /\ CopiesIn(close, sent') = 1

C22_DialInitReply == [][C22_Step]_vars

\* a dialInit of a never-seen key of the flooding peer was turned away at
\* the cap with one signalClose
C22_Witness ==
    /\ last.op = "dialInit"
    /\ last.key[1] = FloodPeer
    /\ last.key \notin DOMAIN sessions
    /\ sent = SetToBag({[type |-> "close", key |-> last.key]})
    /\ Cardinality(DOMAIN sessions) = 256


\* a data message: for a key of the table the session is accepted
\* afterwards and the loop goes on to push the conn when the session was
\* pending, to deliver otherwise; for another key nothing changes
C23_DataStep ==
    last'.op = "data" =>
      LET key == last'.key
      IN  IF key \in DOMAIN sessions
          THEN /\ sessions'[key].accepted
               /\ sessions'[key].conn = sessions[key].conn
               /\ rl'.conn = sessions[key].conn
               /\ rl'.pc = IF sessions[key].accepted THEN "deliver" ELSE "push"
               /\ connCh' = connCh
               /\ pushed' = pushed
               /\ incoming' = incoming
          ELSE /\ sessions' = sessions
               /\ nConns' = nConns
               /\ rl' = rl
               /\ connCh' = connCh
               /\ pushed' = pushed
               /\ incoming' = incoming

\* a conn enters the accept queue only by the push of a first data
\* message, once, and the payload is delivered after it
C23_PushStep ==
    (pushed' # pushed \/ Len(connCh') > Len(connCh)) =>
      /\ rl.pc = "pushSelect"
      /\ rl.conn \notin pushed
      /\ pushed' = pushed \cup {rl.conn}
      /\ connCh' = Append(connCh, rl.conn)
      /\ rl' = [rl EXCEPT !.pc = "deliver"]

\* a payload is queued on a conn only by deliver, on a conn push enqueued
C23_DeliverStep ==
    (\E c \in DOMAIN incoming' : Len(incoming'[c]) > Len(MapGet(incoming, c, <<>>))) =>
      /\ rl.pc = "deliver"
      /\ rl.conn \in pushed
      /\ incoming' = MapPut(incoming, rl.conn,
                            Append(MapGet(incoming, rl.conn, <<>>), rl.payload))

\* what Accept can yield and has yielded: conns a dialInit created and a
\* data message pushed, none of them twice
C23_Yielded ==
    /\ \A i, j \in 1..Len(connCh) : i # j => connCh[i] # connCh[j]
    /\ Range(connCh) \cap held = {}
    /\ Range(connCh) \cup held \subseteq pushed
    /\ \A c \in pushed : c[2] \in 1..nConns
    /\ pushed # {} => nData >= 1

\* C23: the first data message for a pending session sets accepted, pushes
\* its conn to the listener once and then delivers the payload; later data
\* messages only deliver; a data message for a key not in the table creates
\* no session, pushes nothing and delivers nothing; Accept yields only conns
\* a dialInit created and a data message pushed, and none twice.
C23_FirstDataPushes ==
    /\ [](C23_Yielded)
    /\ [][C23_DataStep /\ C23_PushStep /\ C23_DeliverStep]_vars

\* Accept has yielded the conn and the second data message was delivered to
\* it without another push
C23_Witness ==
    /\ last.op = "deliver"
    /\ last.result = "queued"
    /\ last.conn \in held
    /\ Len(incoming[last.conn]) = 2
    /\ connCh = <<>>


\* listener.push returns: with fewer than 128 conns queued and the listener
\* open the conn is enqueued; with 128 queued it returns an error
\* (overloaded, if the listener is open) and the service marks the conn
\* remote-closed, closes it, removes its session and drops the payload
C24_PushStep ==
    (rl.pc = "pushSelect" /\ rl'.pc # "pushSelect") =>
      /\ (Len(connCh) < 128 /\ ~lclosed)
           => /\ connCh' = Append(connCh, rl.conn)
              /\ rl' = [rl EXCEPT !.pc = "deliver"]
      /\ Len(connCh) >= 128
           => /\ connCh' = connCh
              /\ last'.err \in {"overloaded", "closed"}
              /\ ~lclosed => last'.err = "overloaded"
              /\ rl.conn \in remoteClosed'
              /\ rl.conn \in closedConns'
              /\ KeyOf(rl.conn) \notin DOMAIN sessions'
              /\ incoming' = incoming
              /\ rl'.pc = "idle"

\* C24: listener.push enqueues at once while fewer than 128 conns are
\* queued; with the queue full until the timer fires it returns the
\* overloaded error, and the service then marks the conn remote-closed,
\* closes it, removes its session from the table and does not deliver the
\* payload; the queue never holds more than 128 conns.
C24_PushOverloaded == [](Len(connCh) <= 128) /\ [][C24_PushStep]_vars

\* the push of the 129th conn returned overloaded with the listener open
C24_Witness ==
    /\ last.op = "push"
    /\ last.err = "overloaded"
    /\ ~lclosed
    /\ Len(connCh) = 128
    /\ last.conn \in closedConns \cap remoteClosed
    /\ KeyOf(last.conn) \notin DOMAIN sessions

\* ------------------------------------------------------------------------
\* Properties of the receive loop and the rendezvous client
\* ------------------------------------------------------------------------
C25_Clients ==
    /\ derp.pc \in {"retry", "connect", "sleep"} => svc.client = "nil"
    /\ svc.client = "open" => derp.current \notin derp.shut
    /\ \A n \in 1..derp.nClients :
           n \notin derp.shut =>
               \/ svc.client = "open" /\ n = derp.current
               \/ n = derp.mine /\ derp.pc \in {"recv", "failed", "clear"}

C25_LoopStep ==
    /\ last'.op = "loop" => sessions' = sessions /\ UNCHANGED connVars
    /\ last'.op = "loop" /\ last'.at = "failed" =>
           derp'.pc = IF svc.closed THEN "exited" ELSE "clear"
    /\ last'.op = "loop" /\ last'.at = "clear" =>
           /\ derp.mine \in derp'.shut
           /\ svc'.client = "nil"
    /\ last'.op = "loop" /\ last'.at = "retry" =>
           derp'.pc = IF svc.closed THEN "exited" ELSE "connect"
    /\ last'.op = "loop" /\ last'.at = "connect" =>
           \/ derp'.pc = "sleep" /\ svc'.client = "nil"
           \/ /\ derp'.pc = "top"
              /\ svc'.client = "open"
              /\ derp'.current = derp'.nClients
              /\ derp'.current \notin derp.shut
    /\ last'.op = "loop" /\ last'.at = "sleep" => derp'.pc = "retry"
    /\ derp.pc # "exited" /\ derp'.pc = "exited" => svc.closed

C25_SendStep ==
    last'.op = "send" =>
        /\ svc.client = "open" => last'.client = derp.nClients /\ last'.client \notin derp.shut
        /\ svc.client = "nil" => last'.client = 0

C25_ReceivesAgain ==
    (derp.pc = "failed" /\ ~svc.closed) ~>
        \/ derp.pc = "exited"
        \/ derp.pc = "recv" /\ svc.client = "open" /\ derp.mine = derp.current

\* C25: when Recv fails while the service is open, the receive loop clears
\* s.derpClient and closes the failed client, then retries connectDERP, with
\* a sleep after each failure, until a connect succeeds or the service is
\* closed; connects succeeding after finitely many failures, the loop is back
\* in Recv on the new client (or has returned because the service was closed);
\* none of these steps changes the session table or a conn, and a conn's
\* sendSignal goes through the client that is in s.derpClient at the time of
\* the send, which is the newest client and is not closed.
C25_Reconnect ==
    /\ [](C25_Clients)
    /\ [][C25_LoopStep /\ C25_SendStep]_vars
    /\ C25_ReceivesAgain

C25_Witness ==
    /\ last.op = "send"
    /\ last.born = 1
    /\ last.client = 2
    /\ 1 \in derp.shut
    /\ derp.fails > 0
    /\ ~svc.closed
    /\ last.key \in DOMAIN sessions

\* ------------------------------------------------------------------------
\* Properties of relayConn.Write
\* ------------------------------------------------------------------------
C26_Returned == call.op = "write" /\ call.pc = "returned"

\* C26: Write on a locally closed relayConn returns the closed error, and
\* Write on a relayConn that is not closed locally but is marked
\* remote-closed returns an error (EOF); both return 0 bytes and hand no data
\* envelope to sendSignal, whatever the buffer, the deadline and the outcome
\* the sends would have had.
C26_WriteRejected ==
    C26_Returned =>
        /\ call.in.closed => call.out.err = "closed"
        /\ ~call.in.closed /\ call.in.remoteClosed => call.out.err = "EOF"
        /\ call.in.closed \/ call.in.remoteClosed =>
               call.out.n = 0 /\ call.out.handed = <<>>

C26_Witness ==
    /\ C26_Returned
    /\ ~call.in.closed
    /\ call.in.remoteClosed
    /\ call.in.len > maxChunk
    /\ call.in.fail = 0
    /\ ~call.in.deadline.set
    /\ call.out = [n |-> 0, err |-> "EOF", handed |-> <<>>]

C27_Open == C26_Returned /\ ~call.in.closed /\ ~call.in.remoteClosed /\ ~call.in.deadline.set

C27_Total(handed, k) == IF k = 0 THEN 0 ELSE handed[k].hi

\* C27: on an open relayConn with no write deadline, Write(b) hands
\* sendSignal data envelopes whose payloads are consecutive slices of b of
\* between 1 and 65000 bytes, in order, starting at the first byte; when a
\* send fails it is the last one handed and n is the total length of the
\* chunks before it, returned with the error; when no send fails the chunks
\* cover b and Write returns len(b) and no error.
C27_WriteChunks ==
    C27_Open =>
        LET h == call.out.handed
            failed == call.in.fail \in 1..Len(h)
        IN  /\ \A i \in 1..Len(h) :
                   /\ h[i].lo = C27_Total(h, i - 1)
                   /\ h[i].hi - h[i].lo \in 1..65000
                   /\ h[i].hi <= call.in.len
            /\ failed =>
                   /\ call.in.fail = Len(h)
                   /\ call.out.n = C27_Total(h, Len(h) - 1)
                   /\ call.out.err = "send"
            /\ ~failed =>
                   /\ C27_Total(h, Len(h)) = call.in.len
                   /\ call.out.n = call.in.len
                   /\ call.out.err = "nil"

C27_Witness ==
    /\ C27_Open
    /\ call.in.len = 2 * maxChunk + 1
    /\ call.in.fail = 3
    /\ call.out.n = 2 * maxChunk
    /\ call.out.err = "send"
    /\ Len(call.out.handed) = 3
    /\ call.out.handed[3] = [lo |-> 2 * maxChunk, hi |-> 2 * maxChunk + 1]

\* ------------------------------------------------------------------------
\* Properties of the signal envelope
\* ------------------------------------------------------------------------
C28_Dropped(kind, key) ==
    LET m == decodeSignalMessage(packetOf(kind, key, 1, 1), ServerKey, key[1])
    IN  m.err # "nil" \/ handlerOf(m.type) = "none"

C28_DropStep ==
    last'.op = "dropped" =>
        /\ UNCHANGED <<sessions, nConns, connVars, connCh, lclosed, acc, held, pushed>>
        /\ sent' = EmptyBag
        /\ rl' = Idle

\* C28: a packet whose payload fails decodeSignalMessage (empty, shorter than
\* 51 bytes, wrong four-byte prefix, box that does not open, bad inner
\* length) and a packet that decodes to a type other than dialInit, data and
\* close are dropped by the receive loop: the session table, the conns and
\* the listener are as before, nothing is handed to sendDERPSignal, and the
\* loop is ready for the next packet; well-formed dialInit, data and close
\* packets are not dropped.
C28_BadPacketDropped ==
    /\ [](/\ \A kind \in BadKinds \cup UnknownKinds, key \in HotKeys : C28_Dropped(kind, key)
          /\ \A kind \in GoodKinds, key \in HotKeys : ~C28_Dropped(kind, key))
    /\ [][C28_DropStep]_vars

C28_Witness ==
    /\ last.op = "dropped"
    /\ last.kind = "dialAck"
    /\ last.err = "nil"
    /\ last.key \in DOMAIN sessions
    /\ sessions[last.key].accepted
    /\ sessions[last.key].conn \in held
    /\ ~lclosed

C21_SamePair(a, b) == a.from = b.from /\ a.to = b.to

\* within one process the envelopes carry different counters, whatever the
\* session and the encoder
C21_DistinctInProcess ==
    call.op = "seal" =>
        \A a, b \in call.out :
            a.from[1] = b.from[1] /\ a.boot = b.boot /\ a.raw.counter = b.raw.counter
                => a = b

\* C21: no two envelopes sealed for the same (sender key, recipient key)
\* pair carry the same counter and nonce, the server's key being the same
\* before and after a restart of the server.
C21_NonceNeverReused ==
    call.op = "seal" =>
        \A a, b \in call.out :
            /\ C21_SamePair(a, b)
            /\ a.raw.counter = b.raw.counter
            /\ a.raw.box.nonce = b.raw.box.nonce
            => a = b

\* ------------------------------------------------------------------------
\* Properties of derpClient.Recv
\* ------------------------------------------------------------------------
C29_Bad(f) == f.header # "ok" \/ f.length > 1048576 \/ (f.length > 0 /\ f.payload.len < f.length)

C29_IsPacket(f) == ~C29_Bad(f) /\ f.typ = 5 /\ f.length >= 32

C29_IsPing(f) == ~C29_Bad(f) /\ f.typ = 18 /\ f.length >= 8

C29_Packets == SelectSeq(call.read, C29_IsPacket)

C29_Pings == SelectSeq(call.read, C29_IsPing)

\* C29: Recv returns the received-packet frames (type 0x05) of at least 32
\* bytes, in the order of the wire, each as its first 32 bytes (the source)
\* and the rest (the payload); for each ping frame of at least 8 bytes it
\* calls sendPong once with the first 8 bytes of the ping; keep-alive,
\* server-info, unknown and too-short frames yield neither; a frame longer
\* than 1 MiB or a read error ends Recv with an error, and nothing else does.
C29_RecvFrames ==
    call.op = "recv" =>
        /\ Len(call.returned) = Len(C29_Packets)
        /\ \A i \in 1..Len(C29_Packets) :
               /\ call.returned[i].Source = SubSeq(C29_Packets[i].payload.head, 1, 32)
               /\ call.returned[i].Payload.len = C29_Packets[i].length - 32
               /\ call.returned[i].Source \o call.returned[i].Payload.head
                      = C29_Packets[i].payload.head
        /\ Len(call.pongs) = Len(C29_Pings)
        /\ \A i \in 1..Len(C29_Pings) :
               /\ Len(call.pongs[i]) = 8
               /\ call.pongs[i] = SubSeq(C29_Pings[i].payload.head, 1, 8)
        /\ call.err # "nil" <=> (call.read # <<>> /\ C29_Bad(call.read[Len(call.read)]))
        /\ \A i \in 1..Len(call.read) - 1 : ~C29_Bad(call.read[i])

C29_Witness ==
    /\ call.op = "recv"
    /\ Len(call.read) = 3
    /\ call.read[1].typ = 18 /\ call.read[1].length = 12
    /\ call.read[2].typ = 5 /\ call.read[2].length = 40
    /\ call.read[3].length > 1048576
    /\ Len(call.returned) = 1
    /\ Len(call.pongs) = 1
    /\ call.err = "derp frame too large"

\* ------------------------------------------------------------------------
\* Properties of the latency ranking
\* ------------------------------------------------------------------------
C30_Returned == call.op = "probe" /\ call.pc = "returned"

C30_Collected ==
    /\ call.op = "probe"
    /\ call.pc \in {"closed", "returned"}
    /\ call.n > 1 => \A i \in 1..call.n :
                         call.g[i] = "done" /\ (call.pc = "closed" => \E r \in call.results : r.index = i)

C30_Better(a, b) ==
    a.latency < b.latency \/ (a.latency = b.latency /\ a.regionID <= b.regionID)

C30_State ==
    call.op = "probe" =>
        /\ Cardinality({i \in DOMAIN call.g : call.g[i] = "probe"}) <= 8
        /\ C30_Returned =>
               /\ ~call.out.err
               /\ Len(call.ranked) = call.n
               /\ {call.ranked[i].regionID : i \in 1..call.n} = 1..call.n
               /\ call.n > 1 => \A i \in 1..call.n :
                                    call.ranked[i].latency = call.measured[call.ranked[i].regionID]
               /\ \A i \in 1..call.n : C30_Better(call.ranked[1], call.ranked[i])
               /\ call.out.regionID = call.ranked[1].regionID
               /\ (\A i \in 1..call.n : call.ranked[i].latency = unreachableDERPLatency)
                      => call.out.regionID = 1

\* C30: pickNearestDERPNode returns the candidate with the lowest probed
\* latency, the lower region id among equals; a probe that failed leaves its
\* candidate in the list with the unreachable latency, so that with every
\* probe failed the lowest region id is returned; for one, two, three and
\* more than eight candidates at most 8 probes run at a time, every
\* goroutine delivers its result and wg.Wait returns, after which every
\* result is taken into the ranking.
C30_NearestNode == [](C30_State) /\ <>(C30_Collected)

C30_Witness ==
    /\ C30_Returned
    /\ call.n > derpLatencyProbeConcurrency
    /\ call.measured[1] = 2
    /\ call.measured[2] = 1
    /\ call.measured[3] = unreachableDERPLatency
    /\ call.measured[call.n] = 1
    /\ call.out.regionID = 2
    /\ call.ranked[2].regionID = call.n
    /\ call.ranked[call.n].regionID = call.n - 1

\* ------------------------------------------------------------------------
\* Properties of the envelope sizes
\* ------------------------------------------------------------------------
C40_Sent == call.op = "envelopes" /\ call.pc = "sent"

\* C40: for every chunk Write produces (at most 65000 bytes) the inner
\* length 17 + len(chunk) is below 2^16 and is what the length field holds,
\* the padded plaintext is a multiple of 16 bytes long, and the envelope (16
\* bytes of header, the plaintext and the 16 bytes box adds) has at most
\* 65536 bytes, so that Send rejects none of them for its size.
C40_EnvelopesFit ==
    C40_Sent =>
        /\ call.rejected = {}
        /\ \A i \in 1..Len(call.raws) :
               LET chunkLen == call.chunks[i].hi - call.chunks[i].lo
                   inner == call.raws[i].box.plain
               IN  /\ chunkLen <= 65000
                   /\ 17 + chunkLen < 65536
                   /\ inner.innerLen = 17 + chunkLen
                   /\ inner.size % 16 = 0
                   /\ inner.size >= 2 + inner.innerLen
                   /\ inner.size < 2 + inner.innerLen + 16
                   /\ call.raws[i].len = 16 + inner.size + 16
                   /\ call.raws[i].len <= 65536

C40_Witness ==
    /\ C40_Sent
    /\ call.len = 65001
    /\ Len(call.raws) = 2
    /\ call.raws[1].box.plain.innerLen = 65017
    /\ call.raws[1].len = 65056
    /\ call.raws[2].len = 64
    /\ call.rejected = {}

\* ------------------------------------------------------------------------
\* Properties of the conns' queues and of the session table under Close
\* ------------------------------------------------------------------------
\* C32: pushIncoming never sends on an incoming queue that markRemoteClosed
\* has closed: the process does not panic.
C32_NoSendOnClosedQueue == ~panicked

\* C33: the on-closed hook run by a conn's Close removes no session but the
\* conn's own: a session the step deletes held the conn that was closed.
C33_HookRemovesOwnSession ==
    [][last'.op = "connClose"
         => \A k \in DOMAIN sessions \ DOMAIN sessions' :
                sessions[k].conn = last'.conn]_vars

\* C34: once Service.Close has returned, the session table is empty.
C34_EmptyAfterClose == svc.once = "done" => sessions = <<>>

\* C35: once Service.Close has returned and the receive loop has ended, the
\* service holds no open rendezvous client.
C35_NoOpenClientLeft ==
    (svc.once = "done" /\ derp.pc = "exited") => svc.client # "open"

\* C37: a conn that listener.push enqueued and that is still in the queue of
\* a closed listener, out of reach of Accept, is closed once Service.Close
\* has returned and the receive loop is idle.
C37_NoneStranded ==
    (lclosed /\ svc.once = "done" /\ rl.pc = "idle" /\ ~svc.got)
        => \A i \in 1..Len(connCh) : connCh[i] \in closedConns

\* ------------------------------------------------------------------------
\* Properties of the link's buffered writer
\* ------------------------------------------------------------------------
\* C31: every packet for which Send returned nil reaches the connection:
\* eventually it is no longer held back in the write buffer.
C31_AcceptedReachesConn ==
    \A id \in 1..CloseId : (id \in call.nil) ~> (id \in call.wire)

\* C36: the signalClose envelope of a locally closed conn is written to the
\* link before the link is shut down: when Close has returned it is on the
\* connection.
C36_CloseEnvelopeFlushed ==
    call.op = "link" /\ call.rc = "done" => CloseId \in call.wire

\* ------------------------------------------------------------------------
\* Properties of the receive loop's progress and of the session-table mutex
\* ------------------------------------------------------------------------
\* C38: the receive loop always makes progress: a payload it is delivering
\* is eventually dealt with and the loop is back at its Recv.
C38_LoopProgress == (rl.pc = "deliver") ~> (rl.pc = "idle")

C39_Released ==
    call.op = "mutex" =>
        \A p \in MutexProcs :
            (call.prog[p] # <<>> /\ Head(call.prog[p]) \in ReleasedSteps) => call.mu # p

C39_EachReleased == \A p \in MutexProcs : (call.mu = p) ~> (call.mu # p)

\* C39: the on-closed hooks, conn.Close, listener.push and the signal sends
\* are run by a goroutine that does not hold sessionMu, no goroutine locks
\* the mutex it holds, and every acquisition is followed by its release.
C39_NoDeadlock == [](C39_Released) /\ C39_EachReleased

C39_Witness ==
    /\ call.op = "mutex"
    /\ call.mu = "free"
    /\ call.did = [by |-> "recv", what |-> "unlock"]
    /\ call.prog["recv"] = <<"send">>
    /\ call.closed
    /\ call.prog["closer"] = <<"send">>
    /\ call.prog["app"] = <<"lock", "delete", "unlock", "send">>
    /\ call.prog["sweep"] = <<"markRemoteClosed">> \o connCloseSteps

================================================================
